---- MODULE Spec2Model ----
(***************************************************************************)
(* kermi2mqtt: the Modbus-to-MQTT bridge engine (bridge.py), its safety    *)
(* layer (safety.py) and the bus client's publish path (mqtt_client.py).   *)
(*                                                                         *)
(* Conventions of the model                                                *)
(*  - A Python str is a sequence of tokens.  A token stands for a fixed    *)
(*    run of characters without "/" (or for the single character "/").     *)
(*    The tokens are chosen so that no token is a proper suffix of         *)
(*    another and no token that ends an mqtt_base_topic is a proper prefix *)
(*    of another; str.startswith, str.endswith, str.split("/") and ==      *)
(*    then agree with the same operations on token sequences.              *)
(*  - A float that carries a temperature is an integer number of           *)
(*    1/ValueScale degrees.                                                *)
(*  - time.time() is an integer number of ticks, TicksPerSecond ticks to   *)
(*    the second, read from the variable now, which never runs backwards   *)
(*    and starts no earlier than min_interval after the epoch.             *)
(*  - A (bool, str) result is a record [ok, msg]; a message is a record    *)
(*    with a kind and the values the f-string interpolates.                *)
(***************************************************************************)
EXTENDS Integers, Sequences, FiniteSets, TLC

\* ------------------------------------------------------------------------
\* Bounds of the model
\* ------------------------------------------------------------------------
ValueScale == 10
TicksPerSecond == 2
MaxIntervals == 1

\* ------------------------------------------------------------------------
\* Program constants
\* ------------------------------------------------------------------------
DhwMinDegrees == 40
DhwMaxDegrees == 60
min_interval_seconds == 60

\* the pause between a write and its confirmatory poll, in milliseconds
settle_delay_ms == 500

\* IntegrationConfig.poll_interval (its default) and the retry delay of the
\* polling loop, in seconds
poll_interval_seconds == 30
retry_delay_seconds == 5

None == "<None>"

\* ------------------------------------------------------------------------
\* str operations (on token sequences)
\* ------------------------------------------------------------------------
StartsWith(s, p) == Len(p) <= Len(s) /\ SubSeq(s, 1, Len(p)) = p

EndsWith(s, p) == Len(p) <= Len(s) /\ SubSeq(s, Len(s) - Len(p) + 1, Len(s)) = p

RECURSIVE Split(_)
Split(s) ==
    IF \A i \in 1..Len(s) : s[i] # "/"
    THEN <<s>>
    ELSE LET i == CHOOSE k \in 1..Len(s) :
                      s[k] = "/" /\ \A j \in 1..(k - 1) : s[j] # "/"
         IN  <<SubSeq(s, 1, i - 1)>> \o Split(SubSeq(s, i + 1, Len(s)))

\* ------------------------------------------------------------------------
\* safety.py: RangeValidator, SafetyValidator, the pre-configured validators
\* ------------------------------------------------------------------------
OK == [ok |-> TRUE, msg |-> [kind |-> "OK"]]

Fail(m) == [ok |-> FALSE, msg |-> m]

\* the range test with both bounds excluded
RangeValidatorValidateStrict(self, value) ==
    IF ~(self.min_val < value /\ value < self.max_val)
    THEN Fail([kind |-> "outside_safe_range", parameter_name |-> self.parameter_name,
               value |-> value, min_val |-> self.min_val, max_val |-> self.max_val])
    ELSE OK

RangeValidatorValidate(self, value) ==
    IF ~(self.min_val <= value /\ value <= self.max_val)
    THEN Fail([kind |-> "outside_safe_range", parameter_name |-> self.parameter_name,
               value |-> value, min_val |-> self.min_val, max_val |-> self.max_val])
    ELSE OK

RangeValidator(min_val, max_val, parameter_name) ==
    [rule |-> "RangeValidator.validate", min_val |-> min_val, max_val |-> max_val,
     parameter_name |-> parameter_name]

\* a validation rule is a callable: a bound RangeValidator.validate
ApplyRule(rule, value) == RangeValidatorValidate(rule, value)

SafetyValidatorNew(attribute_name) ==
    [attribute_name |-> attribute_name, validation_rules |-> <<>>, block_reason |-> None]

add_rule(self, rule) ==
    [self EXCEPT !.validation_rules = Append(@, rule)]

block(self, reason) == [self EXCEPT !.block_reason = reason]

\* Python truthiness of an optional str
Truthy(s) == s # None /\ s # ""

SafetyValidatorValidate(self, value) ==
    IF Truthy(self.block_reason)
    THEN Fail([kind |-> "blocked", reason |-> self.block_reason])
    ELSE LET failing == {i \in 1..Len(self.validation_rules) :
                            ~ApplyRule(self.validation_rules[i], value).ok}
         IN  IF failing = {} THEN OK
             ELSE LET first == CHOOSE i \in failing : \A j \in failing : i <= j
                  IN  Fail(ApplyRule(self.validation_rules[first], value).msg)

create_dhw_validator ==
    add_rule(SafetyValidatorNew("set_hot_water_setpoint_constant"),
             RangeValidator(DhwMinDegrees * ValueScale, DhwMaxDegrees * ValueScale,
                            "DHW temperature"))

\* the names class SafetyValidator defines (what SafetyValidator.<name> resolves)
SafetyValidatorAttrs == {"__init__", "add_rule", "block", "validate"}

\* ------------------------------------------------------------------------
\* safety.py: RateLimiter
\* ------------------------------------------------------------------------
min_interval == min_interval_seconds * TicksPerSecond

\* f"{x:.0f}" of x = ticks / TicksPerSecond seconds: nearest whole number,
\* an exact half going to the even neighbour
Format0f(ticks) ==
    LET q == ticks \div TicksPerSecond
        r == ticks % TicksPerSecond
    IN  IF 2 * r < TicksPerSecond THEN q
        ELSE IF 2 * r > TicksPerSecond THEN q + 1
        ELSE IF q % 2 = 0 THEN q ELSE q + 1

\* dict.get(parameter, 0)
Get(d, k, default) == IF k \in DOMAIN d THEN d[k] ELSE default

Put(d, k, v) == [x \in (DOMAIN d) \cup {k} |-> IF x = k THEN v ELSE d[x]]

\* the update made before the interval test
CanWriteStampFirst(lw, t, parameter) ==
    LET last == Get(lw, parameter, 0)
    IN  IF t - last < min_interval
        THEN [ok |-> FALSE,
              msg |-> [kind |-> "rate_limit",
                       wait |-> Format0f(min_interval - (t - last)),
                       parameter |-> parameter],
              remaining |-> min_interval - (t - last),
              last_write |-> Put(lw, parameter, t)]
        ELSE [ok |-> TRUE, msg |-> [kind |-> "OK"], remaining |-> 0,
              last_write |-> Put(lw, parameter, t)]

\* RateLimiter.can_write on the map lw at clock reading t: the result and the
\* map afterwards
CanWrite(lw, t, parameter) ==
    LET last == Get(lw, parameter, 0)
    IN  IF t - last < min_interval
        THEN [ok |-> FALSE,
              msg |-> [kind |-> "rate_limit",
                       wait |-> Format0f(min_interval - (t - last)),
                       parameter |-> parameter],
              remaining |-> min_interval - (t - last),
              last_write |-> lw]
        ELSE [ok |-> TRUE, msg |-> [kind |-> "OK"], remaining |-> 0,
              last_write |-> Put(lw, parameter, t)]

\* ------------------------------------------------------------------------
\* mappings.py: the attribute tables (an excerpt that keeps the order of the
\* source lists and every writable attribute)
\* ------------------------------------------------------------------------
Attr(method_name, suffix, writable, ha_component, value_enum) ==
    [method_name |-> method_name, mqtt_topic_suffix |-> suffix, writable |-> writable,
     ha_component |-> ha_component, value_enum |-> value_enum]

HEAT_PUMP_ATTRIBUTES ==
    << Attr("outdoor_temperature", <<"sensors", "/", "outdoor_temp">>, FALSE, "sensor", None),
       Attr("heat_pump_status", <<"sensors", "/", "status">>, FALSE, "sensor", "HeatPumpStatus"),
       Attr("global_alarm", <<"binary", "_", "sensors", "/", "alarm">>, FALSE,
            "binary_sensor", None) >>

STORAGE_SYSTEM_ATTRIBUTES ==
    << Attr("t4_temperature", <<"sensors", "/", "t4_temp">>, FALSE, "sensor", None),
       Attr("hot_water_actual", <<"sensors", "/", "hot_water", "_", "actual">>, FALSE,
            "sensor", None),
       Attr("cooling_actual", <<"sensors", "/", "cooling_actual">>, FALSE, "sensor", None),
       Attr("season_selection_manual", <<"sensors", "/", "season_selection">>, FALSE,
            "sensor", "SeasonSelection"),
       Attr("set_hot_water_setpoint_constant",
            <<"controls", "/", "hot_water", "_", "setpoint">>, TRUE, "number", None),
       Attr("set_hot_water_single_charge_active",
            <<"controls", "/", "one_time", "_", "heating">>, TRUE, "button", None),
       Attr("set_season_selection_manual",
            <<"controls", "/", "season_selection">>, TRUE, "select", "SeasonSelection"),
       Attr("set_heating_circuit_energy_mode",
            <<"controls", "/", "energy_mode">>, TRUE, "select", "EnergyMode") >>

get_heat_pump_attributes == HEAT_PUMP_ATTRIBUTES

get_storage_system_attributes == STORAGE_SYSTEM_ATTRIBUTES

\* ------------------------------------------------------------------------
\* bridge.py: discover_devices (config: base_topic "kermi", device_id
\* "xcenter"; all three units present)
\* ------------------------------------------------------------------------
base_topic == <<"kermi">>

config_device_id == <<"xcenter">>

KermiDevice(type_tokens, device_type, unit_id, attributes) ==
    [device_id |-> config_device_id \o <<"_">> \o type_tokens,
     device_type |-> device_type,
     unit_id |-> unit_id,
     attributes |-> attributes,
     mqtt_base_topic |-> base_topic \o <<"/">> \o config_device_id \o <<"/">> \o type_tokens]

devices ==
    << KermiDevice(<<"heat_pump">>, "heat_pump", 40, get_heat_pump_attributes),
       KermiDevice(<<"storage", "_", "heating">>, "storage_heating", 50,
                   get_storage_system_attributes),
       KermiDevice(<<"storage", "_", "dhw">>, "storage_dhw", 51,
                   get_storage_system_attributes) >>

DeviceIx == 1..Len(devices)

get_mqtt_topic(device, attribute) ==
    device.mqtt_base_topic \o <<"/">> \o attribute.mqtt_topic_suffix

get_availability_topic(device) == device.mqtt_base_topic \o <<"/", "availability">>

\* ------------------------------------------------------------------------
\* mqtt_client.py: publish_state / publish_availability
\*   bus = [connected, budget]: budget is the number of client.publish calls
\*   the broker connection still carries before one fails (-1: it never fails)
\* ------------------------------------------------------------------------
\* a payload is Text(s), a literal or mapped token, or StrOf(v), str(v) of a value
Text(s) == [kind |-> "text", text |-> s]

StrOf(v) == [kind |-> "str", value |-> v]

Msg(topic, payload, retain) == [topic |-> topic, payload |-> payload, retain |-> retain]

\* an exception is named by its class; None is no exception
ConnectionError == "ConnectionError"

\* publish_state whose failed publish leaves self._connected as it was
PublishStateStaysConnected(bus, topic, payload, retain) ==
    IF ~bus.connected
    THEN [bus |-> bus, sent |-> <<>>, exc |-> ConnectionError]
    ELSE IF bus.budget = 0
    THEN [bus |-> bus, sent |-> <<>>, exc |-> ConnectionError]
    ELSE [bus |-> [bus EXCEPT !.budget = IF @ > 0 THEN @ - 1 ELSE @],
          sent |-> <<Msg(topic, payload, retain)>>, exc |-> None]

\* publish_state: the bus afterwards, what was delivered, the exception raised
publish_state(bus, topic, payload, retain) ==
    IF ~bus.connected
    THEN [bus |-> bus, sent |-> <<>>, exc |-> ConnectionError]
    ELSE IF bus.budget = 0
    THEN [bus |-> [connected |-> FALSE, budget |-> -1], sent |-> <<>>,
          exc |-> ConnectionError]
    ELSE [bus |-> [bus EXCEPT !.budget = IF @ > 0 THEN @ - 1 ELSE @],
          sent |-> <<Msg(topic, payload, retain)>>, exc |-> None]

\* a run of publish_state calls that stops at the first one that raises;
\* attempts counts the calls made
RECURSIVE PublishEach(_, _)
PublishRest(r, rest) ==
    [bus |-> rest.bus, sent |-> r.sent \o rest.sent, exc |-> rest.exc,
     attempts |-> 1 + rest.attempts]

PublishNext(r, msgs) ==
    IF r.exc # None
    THEN [bus |-> r.bus, sent |-> <<>>, exc |-> r.exc, attempts |-> 1]
    ELSE PublishRest(r, PublishEach(r.bus, msgs))

PublishEach(bus, msgs) ==
    IF Len(msgs) = 0
    THEN [bus |-> bus, sent |-> <<>>, exc |-> None, attempts |-> 0]
    ELSE PublishNext(publish_state(bus, msgs[1].topic, msgs[1].payload, msgs[1].retain),
                     Tail(msgs))

AvailabilityMsg(device, available) ==
    Msg(get_availability_topic(device), Text(IF available THEN "online" ELSE "offline"), TRUE)

\* ModbusMQTTBridge.publish_availability: every device in list order
publish_availability(bus, available) ==
    PublishEach(bus, [i \in DeviceIx |-> AvailabilityMsg(devices[i], available)])

\* ------------------------------------------------------------------------
\* bridge.py: the attribute filter and the value transformation
\*   a raw value is [t |-> "float", v |-> n] (n / ValueScale),
\*   [t |-> "bool", v |-> b] or [t |-> "int", v |-> n]
\* ------------------------------------------------------------------------
HEATING_ONLY_ATTRIBUTES ==
    {"heating_setpoint", "heating_actual", "heating_circuit_setpoint",
     "heating_circuit_actual", "heating_circuit_status", "heating_circuit_operating_mode",
     "cooling_actual", "cooling_mode_active", "t4_temperature", "outdoor_temperature_avg"}

DHW_ONLY_ATTRIBUTES == {"hot_water_setpoint", "hot_water_actual", "hot_water_setpoint_constant"}

\* "temperature" in method_name.lower(), for the method names of the tables
ContainsTemperature(method_name) ==
    method_name \in {"outdoor_temperature", "t4_temperature", "t1_temperature",
                     "outdoor_temperature_avg"}

\* float(value) in 1/ValueScale
AsFloat(value) ==
    CASE value.t = "float" -> value.v
      [] value.t = "bool" -> IF value.v THEN ValueScale ELSE 0
      [] OTHER -> value.v * ValueScale

\* the filter as its docstring describes rules 2 and 3: an attribute of the
\* other device type is held back only while it reads zero
ShouldPublishZeroSuppressed(device_type, attribute, value) ==
    IF value.t = "none" THEN FALSE
    ELSE IF device_type = "storage_dhw" /\ attribute.method_name \in HEATING_ONLY_ATTRIBUTES
    THEN AsFloat(value) # 0
    ELSE IF device_type = "storage_heating" /\ attribute.method_name \in DHW_ONLY_ATTRIBUTES
    THEN AsFloat(value) # 0
    ELSE TRUE

\* the filter holding back every reading equal to zero
ShouldPublishNoZeros(device_type, attribute, value) ==
    IF value.t = "none" THEN FALSE
    ELSE IF AsFloat(value) = 0 THEN FALSE
    ELSE IF attribute.ha_component = "sensor" /\ ContainsTemperature(attribute.method_name)
       /\ (AsFloat(value) < (0 - 50) * ValueScale \/ AsFloat(value) > 100 * ValueScale)
    THEN FALSE
    ELSE IF device_type = "storage_dhw" /\ attribute.method_name \in HEATING_ONLY_ATTRIBUTES
    THEN FALSE
    ELSE IF device_type = "storage_heating" /\ attribute.method_name \in DHW_ONLY_ATTRIBUTES
    THEN FALSE
    ELSE TRUE

\* _should_publish_attribute; None is the raw value [t |-> "none"]
should_publish_attribute(device_type, attribute, value) ==
    IF value.t = "none" THEN FALSE
    ELSE IF attribute.ha_component = "sensor" /\ ContainsTemperature(attribute.method_name)
       /\ (AsFloat(value) < (0 - 50) * ValueScale \/ AsFloat(value) > 100 * ValueScale)
    THEN FALSE
    ELSE IF device_type = "storage_dhw" /\ attribute.method_name \in HEATING_ONLY_ATTRIBUTES
    THEN FALSE
    ELSE IF device_type = "storage_heating" /\ attribute.method_name \in DHW_ONLY_ATTRIBUTES
    THEN FALSE
    ELSE TRUE

\* Python truthiness of a raw value
ValueTruthy(value) == IF value.t = "bool" THEN value.v ELSE value.v # 0

\* value_enum(value).name, None when the value matches no member (ValueError);
\* members are numbered from 0 in the order the bridge lists their names
EnumNames(enum) ==
    CASE enum = "SeasonSelection" -> <<"AUTO", "HEATING", "COOLING", "OFF">>
      [] enum = "EnergyMode" -> <<"ECO", "NORMAL", "COMFORT", "OFF", "CUSTOM">>
      [] enum = "HeatPumpStatus" -> <<"STANDBY", "HEATING">>
      [] OTHER -> <<>>

\* the lookup is by equality, so 1.0 and True find the member whose value is 1
EnumName(enum, value) ==
    IF /\ value.t # "none"
       /\ AsFloat(value) % ValueScale = 0
       /\ (AsFloat(value) \div ValueScale) \in 0..(Len(EnumNames(enum)) - 1)
    THEN EnumNames(enum)[(AsFloat(value) \div ValueScale) + 1]
    ELSE None

energy_mode_map ==
    [ECO |-> "eco", NORMAL |-> "comfort", COMFORT |-> "boost", OFF |-> "away",
     CUSTOM |-> "heat_pump"]

season_map == [AUTO |-> "auto", HEATING |-> "heat", COOLING |-> "cool", OFF |-> "off"]

TransformValue(attribute, value) ==
    IF attribute.ha_component = "binary_sensor"
    THEN Text(IF ValueTruthy(value) THEN "ON" ELSE "OFF")
    ELSE IF attribute.value_enum # None
    THEN LET enum_name == EnumName(attribute.value_enum, value)
         IN  IF enum_name = None THEN StrOf(value)
             ELSE IF attribute.value_enum = "EnergyMode"
             THEN Text(energy_mode_map[enum_name])
             ELSE IF attribute.value_enum = "SeasonSelection"
             THEN Text(season_map[enum_name])
             ELSE Text(enum_name)
    ELSE StrOf(value)

\* advanced.mqtt_retain_state, the retain flag of a publish_state without one
mqtt_retain_state == FALSE

\* the loop over the attributes left at the first key without data
RECURSIVE AttributeMsgsUntilMissing(_, _, _)
AttributeMsgsUntilMissing(device, device_data, j) ==
    IF j > Len(device.attributes) THEN <<>>
    ELSE IF device.attributes[j].method_name \notin DOMAIN device_data THEN <<>>
    ELSE (IF should_publish_attribute(device.device_type, device.attributes[j],
                                      device_data[device.attributes[j].method_name])
          THEN <<Msg(get_mqtt_topic(device, device.attributes[j]),
                     TransformValue(device.attributes[j],
                                    device_data[device.attributes[j].method_name]),
                     mqtt_retain_state)>>
          ELSE <<>>)
         \o AttributeMsgsUntilMissing(device, device_data, j + 1)

\* the loop over the attributes left at the first value that matches no
\* member of the attribute's enumeration
RECURSIVE AttributeMsgsUntilUnknownEnum(_, _, _)
AttributeMsgsUntilUnknownEnum(device, device_data, j) ==
    IF j > Len(device.attributes) THEN <<>>
    ELSE IF /\ device.attributes[j].method_name \in DOMAIN device_data
            /\ device.attributes[j].value_enum # None
            /\ EnumName(device.attributes[j].value_enum,
                        device_data[device.attributes[j].method_name]) = None
    THEN <<>>
    ELSE (IF /\ device.attributes[j].method_name \in DOMAIN device_data
             /\ should_publish_attribute(device.device_type, device.attributes[j],
                                         device_data[device.attributes[j].method_name])
          THEN <<Msg(get_mqtt_topic(device, device.attributes[j]),
                     TransformValue(device.attributes[j],
                                    device_data[device.attributes[j].method_name]),
                     mqtt_retain_state)>>
          ELSE <<>>)
         \o AttributeMsgsUntilUnknownEnum(device, device_data, j + 1)

\* _publish_device_state: the publishes it makes, in attribute order
RECURSIVE AttributeMsgs(_, _, _)
AttributeMsgs(device, device_data, j) ==
    IF j > Len(device.attributes) THEN <<>>
    ELSE LET attribute == device.attributes[j]
             data_key == attribute.method_name
         IN  (IF data_key \in DOMAIN device_data
                 /\ should_publish_attribute(device.device_type, attribute,
                                             device_data[data_key])
              THEN <<Msg(get_mqtt_topic(device, attribute),
                         TransformValue(attribute, device_data[data_key]),
                         mqtt_retain_state)>>
              ELSE <<>>)
             \o AttributeMsgs(device, device_data, j + 1)

publish_device_state_msgs(device, device_data) == AttributeMsgs(device, device_data, 1)

\* ------------------------------------------------------------------------
\* modbus_client: read_all_devices, as the bridge consumes it: a mapping of
\* device-type bucket to a mapping of attribute key to value, or a failure
\* ------------------------------------------------------------------------
F(n) == [t |-> "float", v |-> n]

Snapshot1 ==
    [heat_pump |->
        [outdoor_temperature |-> F(5 * ValueScale),
         heat_pump_status |-> [t |-> "int", v |-> 1],
         global_alarm |-> [t |-> "bool", v |-> FALSE]],
     storage_heating |->
        [t4_temperature |-> F(5 * ValueScale),
         hot_water_actual |-> F(0),
         cooling_actual |-> F(0),
         season_selection_manual |-> [t |-> "int", v |-> 1]],
     storage_dhw |->
        [t4_temperature |-> F(0),
         hot_water_actual |-> F(48 * ValueScale),
         cooling_actual |-> F(0)]]

ReadOutcomes ==
    { [ok |-> TRUE, data |-> Snapshot1],
      [ok |-> FALSE, exc |-> ConnectionError],
      [ok |-> FALSE, exc |-> "ModbusException"] }

\* all_data.get(bucket, {})
Bucket(all_data, name) ==
    IF name \in DOMAIN all_data THEN all_data[name] ELSE [x \in {} |-> None]

\* ------------------------------------------------------------------------
\* bridge.py: poll_and_publish
\* ------------------------------------------------------------------------
KnownDeviceTypes == {"heat_pump", "storage_heating", "storage_dhw"}

RECURSIVE StateMsgs(_, _)
StateMsgs(all_data, i) ==
    IF i > Len(devices) THEN <<>>
    ELSE (IF devices[i].device_type \in KnownDeviceTypes
          THEN publish_device_state_msgs(devices[i],
                                         Bucket(all_data, devices[i].device_type))
          ELSE <<>>)
         \o StateMsgs(all_data, i + 1)

AllAvailable(flag) == [i \in DeviceIx |-> flag]

\* "online" published but the flags left as they were after a failure
PollOnlineFlagsLost(r, a) ==
    [available |-> AllAvailable(FALSE), bus |-> a.bus, sent |-> r.sent \o a.sent,
     exc |-> a.exc]

\* lines 304-308: the devices marked available, "online" published
PollOnline(r, a) ==
    [available |-> AllAvailable(TRUE), bus |-> a.bus, sent |-> r.sent \o a.sent,
     exc |-> a.exc]

\* the cycle without its recovery branch
PollPublishedNoRecovery(avail, r) ==
    [available |-> avail, bus |-> r.bus, sent |-> r.sent, exc |-> r.exc]

\* the state publishes made (r), lines 304-310
PollPublished(avail, r) ==
    IF r.exc # None
    THEN [available |-> avail, bus |-> r.bus, sent |-> r.sent, exc |-> r.exc]
    ELSE IF ~(\A i \in DeviceIx : avail[i])
    THEN PollOnline(r, publish_availability(r.bus, TRUE))
    ELSE [available |-> avail, bus |-> r.bus, sent |-> r.sent, exc |-> None]

\* a cycle that publishes state only when it recovers from a failure
PollTryOnRecovery(avail, bus, read) ==
    IF ~read.ok
    THEN [available |-> avail, bus |-> bus, sent |-> <<>>, exc |-> read.exc]
    ELSE PollPublished(avail,
                       PublishEach(bus, IF \A i \in DeviceIx : avail[i] THEN <<>>
                                        ELSE StateMsgs(read.data, 1)))

\* the try block (lines 281-310): availability, bus, deliveries, exception
PollTry(avail, bus, read) ==
    IF ~read.ok
    THEN [available |-> avail, bus |-> bus, sent |-> <<>>, exc |-> read.exc]
    ELSE PollPublished(avail, PublishEach(bus, StateMsgs(read.data, 1)))

\* the handler without its inner try: a failing offline publish replaces the
\* exception being handled
PollOfflineUnguarded(body, off) ==
    [available |-> AllAvailable(FALSE), bus |-> off.bus, sent |-> body.sent \o off.sent,
     exc |-> IF off.exc # None THEN off.exc ELSE body.exc, cause |-> body.exc,
     offline_attempts |-> off.attempts]

\* lines 315-326: "offline" published (off), its failure swallowed, and the
\* exception raised again
PollOffline(body, off) ==
    [available |-> AllAvailable(FALSE), bus |-> off.bus, sent |-> body.sent \o off.sent,
     exc |-> body.exc, cause |-> body.exc, offline_attempts |-> off.attempts]

\* the except block (lines 312-326)
PollExcept(body) == PollOffline(body, publish_availability(body.bus, FALSE))

PollFinish(body) ==
    IF body.exc # None THEN PollExcept(body)
    ELSE [available |-> body.available, bus |-> body.bus, sent |-> body.sent,
          exc |-> None, cause |-> None, offline_attempts |-> 0]

\* poll_and_publish: exc is the exception that leaves it, cause the one that
\* was raised inside its try block
poll_and_publish(avail, bus, read) == PollFinish(PollTry(avail, bus, read))

\* ------------------------------------------------------------------------
\* bridge.py: handle_command
\*   The handler's run is a record st: the bridge state it has reached
\*   (last_write, available, bus), what it has done so far (sent: deliveries,
\*   errors: the _publish_command_error calls, writes: the write_method
\*   calls, poll: the confirmatory poll), the step it ended in (stage), the
\*   exception in flight (exc) and whether one left the handler (raised).
\*   Its input is a record inp: the clock reading t, topic and payload, and
\*   what the device write (write_exc) and the bulk read (read) do if reached.
\* ------------------------------------------------------------------------
\* float(payload), str.upper(), str.strip().lower() on the payloads modelled
ParseFloat(payload) ==
    CASE payload = "45" -> [ok |-> TRUE, v |-> 45 * ValueScale]
      [] payload = "75" -> [ok |-> TRUE, v |-> 75 * ValueScale]
      [] OTHER -> [ok |-> FALSE, v |-> 0]

Upper(payload) ==
    CASE payload = "press" -> "PRESS"
      [] payload = "abc" -> "ABC"
      [] payload = " Heat " -> " HEAT "
      [] OTHER -> payload

StripLower(payload) ==
    CASE payload = " Heat " -> "heat"
      [] OTHER -> payload

season_reverse_map == [auto |-> "AUTO", heat |-> "HEATING", cool |-> "COOLING", off |-> "OFF"]

\* the inverse table written from the members' names
EnergyReverseMapByName ==
    [eco |-> "ECO", comfort |-> "COMFORT", boost |-> "COMFORT", away |-> "OFF",
     performance |-> "NORMAL", high_demand |-> "COMFORT", heat_pump |-> "CUSTOM",
     off |-> "OFF"]

energy_reverse_map ==
    [eco |-> "ECO", comfort |-> "NORMAL", boost |-> "COMFORT", away |-> "OFF",
     performance |-> "NORMAL", high_demand |-> "COMFORT", heat_pump |-> "CUSTOM",
     off |-> "OFF"]

\* SafetyValidator.<name>(arg) on the class: the class defines no such name
\* (AttributeError), or the name is an instance method called without self
\* (TypeError)
SafetyValidatorClassCall(name, arg) ==
    IF name \in SafetyValidatorAttrs
    THEN [exc |-> "TypeError", ok |-> FALSE, msg |-> [kind |-> "OK"]]
    ELSE [exc |-> "AttributeError", ok |-> FALSE, msg |-> [kind |-> "OK"]]

\* the validator handle_command names for a number control
NumberValidatorName(method_name) ==
    CASE method_name = "set_hot_water_setpoint_constant" -> "validate_dhw_temperature"
      [] method_name = "set_heating_curve_offset" -> "validate_heating_curve_offset"
      [] method_name = "set_season_threshold_heating_limit" -> "validate_season_threshold"
      [] OTHER -> None

NoPoll == [ran |-> FALSE, exc |-> None, cause |-> None, offline_attempts |-> 0]

ErrorTopic(command_topic) == command_topic \o <<"/", "error">>

\* the publish to error_topic made (r), its exception let through
Propagate(r, error_topic) ==
    [bus |-> r.bus, sent |-> r.sent, exc |-> r.exc, topic |-> error_topic]

\* the publish to error_topic made (r), its exception swallowed (lines 624-628)
Swallow(r, error_topic) ==
    [bus |-> r.bus, sent |-> r.sent, exc |-> None, topic |-> error_topic]

\* _publish_command_error without its try/except
PublishCommandErrorUnguarded(bus, command_topic, error) ==
    Propagate(publish_state(bus, ErrorTopic(command_topic), error, FALSE),
              ErrorTopic(command_topic))

\* _publish_command_error (lines 612-628)
PublishCommandError(bus, command_topic, error) ==
    Swallow(publish_state(bus, ErrorTopic(command_topic), error, FALSE),
            ErrorTopic(command_topic))

\* the handler's run after the error publish r
Reported(st, error, r) ==
    [st EXCEPT !.bus = r.bus, !.sent = @ \o r.sent,
               !.errors = Append(@, [topic |-> r.topic, error |-> error]),
               !.exc = r.exc]

\* await self._publish_command_error(topic, error)
ReportError(st, topic, error) ==
    Reported(st, error, PublishCommandError(st.bus, topic, error))

Leave(st) == [st EXCEPT !.raised = (st.exc # None)]

\* except Exception as e (lines 608-610)
OuterExcept(st, topic, e) == Leave(ReportError(st, topic, [kind |-> "str(e)", exc |-> e]))

ReturnOrRaise(st, topic) ==
    IF st.exc # None THEN OuterExcept(st, topic, st.exc) ELSE st

AtStage(st, stage) == [st EXCEPT !.stage = stage]

\* await self._publish_command_error(topic, error_msg); return
ErrorReturn(st, topic, error, stage) ==
    ReturnOrRaise(ReportError(AtStage(st, stage), topic, error), topic)

Reraise(st, topic, e) == OuterExcept(st, topic, IF st.exc # None THEN st.exc ELSE e)

\* except Exception as e around the write (lines 602-606)
InnerExcept(st, topic, e) ==
    Reraise(ReportError(st, topic, [kind |-> "Write operation failed", exc |-> e]),
            topic, e)

Polled(st, p, stage) ==
    [st EXCEPT !.available = p.available, !.bus = p.bus, !.sent = @ \o p.sent,
               !.poll = [ran |-> TRUE, exc |-> p.exc, cause |-> p.cause,
                         offline_attempts |-> p.offline_attempts],
               !.polls = @ + 1, !.stage = stage]

\* lines 594-606: after the confirmatory poll p
AfterPoll(st, topic, p) ==
    IF p.exc # None
    THEN InnerExcept(Polled(st, p, "poll_failed"), topic, p.exc)
    ELSE Polled(st, p, "done")

\* await asyncio.sleep(0.5) (line 597)
Settle(st) == [st EXCEPT !.slept = Append(@, settle_delay_ms)]

\* the step after the write polling after every control
AfterWritePollsAlways(st, inp, attribute) ==
    IF inp.write_exc # None
    THEN InnerExcept(AtStage(st, "write_failed"), inp.topic, inp.write_exc)
    ELSE AfterPoll(Settle(st), inp.topic,
                   poll_and_publish(st.available, st.bus, inp.read))

\* lines 587-606: after write_method(parsed_value)
AfterWrite(st, inp, attribute) ==
    IF inp.write_exc # None
    THEN InnerExcept(AtStage(st, "write_failed"), inp.topic, inp.write_exc)
    ELSE IF attribute.ha_component # "button"
    THEN AfterPoll(Settle(st), inp.topic,
                   poll_and_publish(st.available, st.bus, inp.read))
    ELSE AtStage(st, "done")

\* lines 582-606: the write and the confirmatory poll
ExecuteWrite(st, inp, device, attribute, parsed_value) ==
    AfterWrite([st EXCEPT !.writes =
                   Append(@, [device_id |-> device.device_id,
                              method_name |-> attribute.method_name,
                              value |-> parsed_value, ok |-> (inp.write_exc = None)])],
               inp, attribute)

\* lines 485-489, 523-527: after the validator call
AfterValidate(st, inp, device, attribute, call, parsed_value) ==
    IF call.exc # None
    THEN OuterExcept(AtStage(st, "validation_raised"), inp.topic, call.exc)
    ELSE IF ~call.ok
    THEN ErrorReturn(st, inp.topic, call.msg, "validation")
    ELSE ExecuteWrite(st, inp, device, attribute, parsed_value)

\* lines 474-501: a number control
ParseNumber(st, inp, device, attribute, pf) ==
    IF ~pf.ok
    THEN ErrorReturn(st, inp.topic,
                     [kind |-> "Invalid number value", payload |-> inp.payload], "parse")
    ELSE IF NumberValidatorName(attribute.method_name) # None
    THEN AfterValidate(st, inp, device, attribute,
                       SafetyValidatorClassCall(NumberValidatorName(attribute.method_name),
                                                pf.v),
                       [t |-> "float", v |-> pf.v])
    ELSE ExecuteWrite(st, inp, device, attribute, [t |-> "float", v |-> pf.v])

\* lines 503-565: a select control
ParseSelect(st, inp, device, attribute, payload_clean) ==
    IF attribute.method_name = "set_season_selection_manual"
    THEN IF payload_clean \notin DOMAIN season_reverse_map
         THEN ErrorReturn(st, inp.topic, [kind |-> "Invalid season selection",
                                          payload |-> inp.payload], "parse")
         ELSE AfterValidate(st, inp, device, attribute,
                  SafetyValidatorClassCall("validate_season_selection",
                                           season_reverse_map[payload_clean]),
                  [t |-> "SeasonSelection", v |-> season_reverse_map[payload_clean]])
    ELSE IF attribute.method_name = "set_heating_circuit_energy_mode"
    THEN IF payload_clean \notin DOMAIN energy_reverse_map
         THEN ErrorReturn(st, inp.topic, [kind |-> "Invalid energy mode",
                                          payload |-> inp.payload], "parse")
         ELSE AfterValidate(st, inp, device, attribute,
                  SafetyValidatorClassCall("validate_energy_mode",
                                           energy_reverse_map[payload_clean]),
                  [t |-> "EnergyMode", v |-> energy_reverse_map[payload_clean]])
    ELSE ErrorReturn(st, inp.topic, [kind |-> "Unknown select control",
                                     method_name |-> attribute.method_name], "parse")

\* the parse step taking any payload as a button press
ParseAndWriteAnyButton(st, inp, device, attribute) ==
    IF attribute.ha_component = "number"
    THEN ParseNumber(st, inp, device, attribute, ParseFloat(inp.payload))
    ELSE IF attribute.ha_component = "select"
    THEN ParseSelect(st, inp, device, attribute, StripLower(inp.payload))
    ELSE ExecuteWrite(st, inp, device, attribute, [t |-> "int", v |-> 1])

\* lines 472-580: the payload parsed by component kind, then the write
ParseAndWrite(st, inp, device, attribute) ==
    IF attribute.ha_component = "number"
    THEN ParseNumber(st, inp, device, attribute, ParseFloat(inp.payload))
    ELSE IF attribute.ha_component = "select"
    THEN ParseSelect(st, inp, device, attribute, StripLower(inp.payload))
    ELSE IF attribute.ha_component = "button"
    THEN IF Upper(inp.payload) \notin {"1", "PRESS"}
         THEN ErrorReturn(st, inp.topic, [kind |-> "Invalid button payload",
                                          payload |-> inp.payload], "parse")
         ELSE ExecuteWrite(st, inp, device, attribute, [t |-> "int", v |-> 1])
    ELSE ErrorReturn(st, inp.topic, [kind |-> "Unsupported component type for write",
                                     ha_component |-> attribute.ha_component], "parse")

SetMin(S) == CHOOSE x \in S : \A y \in S : x <= y

\* the key handed to the rate limiter (line 466)
RateKey(device, control_name) == device.device_id \o <<"_">> \o control_name

\* lines 465-470: after rate_limiter.can_write (rl)
RateLimited(st, inp, device, attribute, rl) ==
    IF ~rl.ok
    THEN ErrorReturn([st EXCEPT !.last_write = rl.last_write, !.rate_ok = FALSE],
                     inp.topic, rl.msg, "rate_limited")
    ELSE ParseAndWrite([st EXCEPT !.last_write = rl.last_write, !.rate_ok = TRUE],
                       inp, device, attribute)

\* the positions of the attributes the loop of lines 454-457 matches
MatchingWritable(device, control_name) ==
    {j \in 1..Len(device.attributes) :
        /\ EndsWith(device.attributes[j].mqtt_topic_suffix, control_name)
        /\ device.attributes[j].writable}

\* lines 452-470: the attribute found (the first match), the rate limit asked
ResolveAttribute(st, inp, d, control_name, matching) ==
    IF matching = {}
    THEN ErrorReturn(st, inp.topic, [kind |-> "Writable attribute not found",
                                     control_name |-> control_name], "no_attribute")
    ELSE RateLimited([st EXCEPT !.attribute = SetMin(matching),
                                !.key = RateKey(devices[d], control_name)],
                     inp, devices[d], devices[d].attributes[SetMin(matching)],
                     CanWrite(st.last_write, inp.t, RateKey(devices[d], control_name)))

\* the positions of the devices the loop of lines 441-444 matches
MatchingDevices(topic) ==
    {i \in DeviceIx : StartsWith(topic, devices[i].mqtt_base_topic)}

\* lines 439-463: the device found (the first match), then its attribute
ResolveDevice(st, inp, control_name, found) ==
    IF found = {}
    THEN ErrorReturn(st, inp.topic, [kind |-> "Device not found for topic",
                                     topic |-> inp.topic], "no_device")
    ELSE ResolveAttribute([st EXCEPT !.device = SetMin(found)], inp, SetMin(found),
                          control_name,
                          MatchingWritable(devices[SetMin(found)], control_name))

\* the topic check answering a malformed topic with an error
ParseTopicReportsMalformed(st, inp, topic_parts, n) ==
    IF n < 5 \/ topic_parts[n - 2] # <<"controls">> \/ topic_parts[n] # <<"set">>
    THEN ErrorReturn(st, inp.topic, [kind |-> "Invalid command topic format",
                                     topic |-> inp.topic], "dropped")
    ELSE ResolveDevice([st EXCEPT !.control_name = topic_parts[n - 1]], inp,
                       topic_parts[n - 1], MatchingDevices(inp.topic))

\* the topic check looking for "controls" anywhere and taking the part after it
ParseTopicByIndex(st, inp, topic_parts, n) ==
    IF \A k \in 1..(n - 1) : topic_parts[k] # <<"controls">>
    THEN st
    ELSE ResolveDevice(
             [st EXCEPT !.control_name =
                 topic_parts[1 + CHOOSE k \in 1..(n - 1) : topic_parts[k] = <<"controls">>]],
             inp,
             topic_parts[1 + CHOOSE k \in 1..(n - 1) : topic_parts[k] = <<"controls">>],
             MatchingDevices(inp.topic))

\* lines 427-437: the topic split
ParseTopic(st, inp, topic_parts, n) ==
    IF n < 5 \/ topic_parts[n - 2] # <<"controls">> \/ topic_parts[n] # <<"set">>
    THEN st
    ELSE ResolveDevice([st EXCEPT !.control_name = topic_parts[n - 1]], inp,
                       topic_parts[n - 1], MatchingDevices(inp.topic))

\* a handler run that has done nothing yet
HandlerEntry(lw, avail, bus) ==
    [last_write |-> lw, available |-> avail, bus |-> bus, sent |-> <<>>,
     errors |-> <<>>, writes |-> <<>>, poll |-> NoPoll, polls |-> 0, slept |-> <<>>,
     stage |-> "dropped", exc |-> None, raised |-> FALSE, key |-> <<>>,
     control_name |-> <<>>, device |-> 0, attribute |-> 0, rate_ok |-> FALSE]

\* the run of handle_command(topic, payload) from the bridge state given
handle_command(lw, avail, bus, inp) ==
    ParseTopic(HandlerEntry(lw, avail, bus), inp, Split(inp.topic), Len(Split(inp.topic)))

\* ------------------------------------------------------------------------
\* The state
\* ------------------------------------------------------------------------
VARIABLES
    now,             \* time.time(), in ticks
    last_write,      \* RateLimiter.last_write
    available,       \* KermiDevice.available, by position in self.devices
    mqtt_connected,  \* MQTTClient._connected
    written_at,      \* history: clock reading of the last successful device
                     \* write, by <<device, attribute>> position
    lastOp,          \* history: the last bridge operation and what it did
    ret,             \* history: the last RateLimiter call made directly
    validator,       \* a SafetyValidator from create_dhw_validator
    vout,            \* history: the last validate call on it
    pollLog,         \* history: the last two poll cycles of the polling loop
    loop_pc,         \* where run_polling_loop is
    running,         \* ModbusMQTTBridge._running
    sleep_left,      \* what is left of the asyncio.sleep the loop is in
    stop_at,         \* history: where the loop was when stop() was called
    cmd,             \* the command task: idle, or awaiting its device write
    call,            \* history: the last call of a pure function and its result
    rc,              \* a reconnect_with_backoff call: its current_delay, the
                     \* sleeps it has made, what connect() will do
    host,            \* run_bridge: where it is, and what has happened to it
    iter,            \* history: what the current iteration of the polling loop
                     \* has done before its poll, and the sleep it ends in
    sub              \* MQTTClient.subscribe: the messages received, the handlers
                     \* in flight, and the log of their starts and returns

\* the variables of the polling loop, the command task and the function calls
aux == <<pollLog, loop_pc, running, sleep_left, stop_at, cmd, call, rc, host, iter, sub>>

\* the variables of the bridge's objects and their histories
core == <<now, last_write, available, mqtt_connected, written_at, lastOp, ret,
          validator, vout>>

vars == <<core, aux>>

StartTime == min_interval

\* an iteration of the polling loop that has done nothing yet
IterStart ==
    [phase |-> "checking", mqtt_reconnected |-> FALSE, online |-> <<>>,
     modbus |-> "unchecked", exc |-> None, seconds |-> 0]

NoSubscription ==
    [pc |-> "idle", inbox |-> <<>>, active |-> <<>>, log |-> <<>>, arrived |-> 0,
     waited |-> {}]

Init ==
    /\ now = StartTime
    /\ last_write = [x \in {} |-> 0]
    /\ available = [i \in DeviceIx |-> TRUE]
    /\ mqtt_connected = TRUE
    /\ written_at = [x \in {} |-> 0]
    /\ lastOp = [op |-> "init"]
    /\ ret = [op |-> "init"]
    /\ validator = create_dhw_validator
    /\ vout = [op |-> "init"]
    /\ pollLog = <<>>
    /\ loop_pc = "init"
    /\ running = FALSE
    /\ sleep_left = 0
    /\ stop_at = [pc |-> "none"]
    /\ cmd = [pc |-> "idle"]
    /\ call = [op |-> "init"]
    /\ rc = [pc |-> "idle"]
    /\ host = [pc |-> "running", task |-> "startup", flag |-> None, exc |-> None,
               sent |-> <<>>, failures |-> 0, forced |-> FALSE, cancelled_at |-> None,
               exit |-> -1, offline |-> <<>>]
    /\ iter = IterStart
    /\ sub = NoSubscription

\* ------------------------------------------------------------------------
\* The bridge's operations
\* ------------------------------------------------------------------------
MaxTime == StartTime + MaxIntervals * min_interval

\* the time that passes between two bridge operations when any does
Deltas == {min_interval}

DhwBase == devices[3].mqtt_base_topic

CommandTopic(base, control_name) ==
    base \o <<"/", "controls", "/">> \o control_name \o <<"/", "set">>

Cmd(topic, payload) == [topic |-> topic, payload |-> payload]

\* the inbound messages delivered to handle_command
Commands ==
    { Cmd(CommandTopic(DhwBase, <<"hot_water", "_", "setpoint">>), "45"),
      Cmd(CommandTopic(DhwBase, <<"hot_water", "_", "setpoint">>), "75"),
      Cmd(CommandTopic(DhwBase, <<"hot_water", "_", "setpoint">>), "abc"),
      Cmd(CommandTopic(DhwBase, <<"one_time", "_", "heating">>), "press"),
      Cmd(CommandTopic(DhwBase, <<"one_time", "_", "heating">>), "abc"),
      Cmd(CommandTopic(DhwBase, <<"heating">>), "press"),
      Cmd(CommandTopic(DhwBase, <<"bogus">>), "45"),
      Cmd(CommandTopic(<<"kermi", "/", "other", "/", "storage", "_", "dhw">>,
                       <<"one_time", "_", "heating">>), "press"),
      Cmd(CommandTopic(DhwBase, <<"one_time", "_", "heating">>) \o <<"/", "error">>,
          "abc") }

\* what the broker does during one handler run: every publish succeeds (-1),
\* or the first one fails
Budgets == {-1, 0}

\* and during one poll cycle: the second publish may be the one that fails
PollBudgets == {-1, 0, 1}

WriteOutcomes == {None, "ModbusException"}

\* what the collaborators do during one handler run; the bulk read is not
\* reached when the device write fails
Envs ==
    {e \in [budget : Budgets, write_exc : WriteOutcomes, read : ReadOutcomes] :
        e.write_exc # None => e.read = [ok |-> TRUE, data |-> Snapshot1]}

Tick(d) ==
    /\ now + d <= MaxTime
    /\ now' = now + d
    /\ UNCHANGED <<last_write, available, mqtt_connected, written_at, lastOp, ret,
                   validator, vout, aux>>

\* the successful device writes of a handler run stamp written_at
Stamp(wa, st, t) ==
    IF \E k \in 1..Len(st.writes) : st.writes[k].ok
    THEN Put(wa, <<st.device, st.attribute>>, t)
    ELSE wa

HandleCommand(topic, payload, budget, write_exc, read) ==
    \E st \in {handle_command(last_write, available,
                              [connected |-> mqtt_connected, budget |-> budget],
                              [t |-> now, topic |-> topic, payload |-> payload,
                               write_exc |-> write_exc, read |-> read])} :
        /\ last_write' = st.last_write
        /\ available' = st.available
        /\ mqtt_connected' = st.bus.connected
        /\ written_at' = Stamp(written_at, st, now)
        /\ lastOp' = [op |-> "handle_command", topic |-> topic, payload |-> payload,
                      t |-> now, st |-> st, prev_last_write |-> last_write,
                      prev_written_at |-> Get(written_at, <<st.device, st.attribute>>, -1)]
        /\ UNCHANGED <<now, ret, validator, vout, aux>>

\* one poll_and_publish call on the bridge's state
PollCycle(budget, read) ==
    \E p \in {poll_and_publish(available,
                               [connected |-> mqtt_connected, budget |-> budget], read)} :
        /\ available' = p.available
        /\ mqtt_connected' = p.bus.connected
        /\ lastOp' = [op |-> "poll_and_publish", exc |-> p.exc, cause |-> p.cause,
                      sent |-> p.sent, offline_attempts |-> p.offline_attempts,
                      available |-> p.available, connected |-> p.bus.connected]
        /\ UNCHANGED <<now, last_write, written_at, ret, validator, vout>>

\* one poll cycle started by the polling loop
PollAndPublish(budget, read) ==
    /\ PollCycle(budget, read)
    /\ UNCHANGED aux

\* MQTTClient.connect succeeding (reconnect_with_backoff in the polling loop)
MqttConnect ==
    /\ ~mqtt_connected
    /\ mqtt_connected' = TRUE
    /\ UNCHANGED <<now, last_write, available, written_at, lastOp, ret, validator, vout, aux>>

Next ==
    \/ \E d \in Deltas : Tick(d)
    \/ \E c \in Commands, e \in Envs :
            HandleCommand(c.topic, c.payload, e.budget, e.write_exc, e.read)
    \/ \E budget \in PollBudgets, read \in ReadOutcomes : PollAndPublish(budget, read)
    \/ MqttConnect

Spec == Init /\ [][Next]_vars

\* ------------------------------------------------------------------------
\* The rate limiter on its own: can_write and reset called directly, the
\* clock moving between calls
\* ------------------------------------------------------------------------
RlMaxTime == StartTime + 2 * MaxIntervals * min_interval

\* one tick short of the interval, and the interval
RlDeltas == {min_interval - 1, min_interval}

RlKeys ==
    { RateKey(devices[3], <<"hot_water", "_", "setpoint">>),
      RateKey(devices[3], <<"one_time", "_", "heating">>) }

Advance(d) ==
    /\ now + d <= RlMaxTime
    /\ now' = now + d
    /\ UNCHANGED <<last_write, available, mqtt_connected, written_at, lastOp, ret,
                   validator, vout, aux>>

CanWriteCall(parameter) ==
    \E r \in {CanWrite(last_write, now, parameter)} :
        /\ last_write' = r.last_write
        /\ ret' = [op |-> "can_write", parameter |-> parameter, t |-> now,
                   ok |-> r.ok, msg |-> r.msg, prev |-> last_write,
                   last_write |-> r.last_write]
        /\ UNCHANGED <<now, available, mqtt_connected, written_at, lastOp, validator,
                       vout, aux>>

\* RateLimiter.reset(parameter) (lines 91-93)
Reset(parameter) ==
    /\ last_write' = [k \in (DOMAIN last_write) \ {parameter} |-> last_write[k]]
    /\ ret' = [op |-> "reset"]
    /\ UNCHANGED <<now, available, mqtt_connected, written_at, lastOp, validator, vout, aux>>

\* RateLimiter.reset() (lines 89-90)
ResetAll ==
    /\ last_write' = [x \in {} |-> 0]
    /\ ret' = [op |-> "reset"]
    /\ UNCHANGED <<now, available, mqtt_connected, written_at, lastOp, validator, vout, aux>>

NextRateLimiter ==
    \/ \E d \in RlDeltas : Advance(d)
    \/ \E parameter \in RlKeys : CanWriteCall(parameter)
    \/ \E parameter \in RlKeys : Reset(parameter)
    \/ ResetAll

SpecRateLimiter == Init /\ [][NextRateLimiter]_vars

\* ------------------------------------------------------------------------
\* The domestic-hot-water validator on its own: validate called with the
\* values around and inside its range
\* ------------------------------------------------------------------------
TestValues == ((DhwMinDegrees - 2) * ValueScale)..((DhwMaxDegrees + 2) * ValueScale)

Validate(value) ==
    /\ vout' = [op |-> "validate", value |-> value,
                result |-> SafetyValidatorValidate(validator, value)]
    /\ UNCHANGED <<now, last_write, available, mqtt_connected, written_at, lastOp, ret,
                   validator, aux>>

NextSafety == \E value \in TestValues : Validate(value)

SpecSafety == Init /\ [][NextSafety]_vars

\* ------------------------------------------------------------------------
\* bridge.py: run_polling_loop and stop
\*   loop_pc is the statement the loop's task is at:
\*     "init"             not started
\*     "top"              the while test (line 642)
\*     "mqtt_reconnect"   awaiting mqtt.reconnect_with_backoff (line 647)
\*     "check_modbus"     the modbus.is_connected test (line 653)
\*     "modbus_reconnect" awaiting modbus.reconnect_with_backoff (line 655)
\*     "polling"          awaiting poll_and_publish, its bulk read in flight
\*     "retry_wait"       asyncio.sleep(min(5.0, interval)) (line 665)
\*     "interval_wait"    asyncio.sleep(interval) (line 674)
\*     "returned"         the while test was false
\*     "broke"            CancelledError caught at line 675, break
\*     "cancelled"        CancelledError left the coroutine
\*     "raised"           another exception left the coroutine
\*   An asyncio.sleep runs down in SleepSteps steps.
\* ------------------------------------------------------------------------
SleepSteps == 2

LoopDone == {"returned", "broke", "cancelled", "raised"}

\* a second bulk-read result, to tell two reads apart
Snapshot2 ==
    [heat_pump |->
        [outdoor_temperature |-> F(6 * ValueScale),
         heat_pump_status |-> [t |-> "int", v |-> 0],
         global_alarm |-> [t |-> "bool", v |-> TRUE]],
     storage_heating |->
        [t4_temperature |-> F(5 * ValueScale),
         hot_water_actual |-> F(0),
         cooling_actual |-> F(3 * ValueScale + ValueScale \div 2),
         season_selection_manual |-> [t |-> "int", v |-> 2]],
     storage_dhw |->
        [t4_temperature |-> F(0),
         hot_water_actual |-> F(50 * ValueScale),
         cooling_actual |-> F(0)]]

\* a bulk-read result without the heat_pump bucket and with keys missing
\* before, between and after the keys present
Snapshot3 ==
    [storage_heating |->
        [cooling_actual |-> F(3 * ValueScale + ValueScale \div 2),
         season_selection_manual |-> [t |-> "int", v |-> 0]],
     storage_dhw |->
        [hot_water_actual |-> F(48 * ValueScale)]]

LoopReads ==
    ReadOutcomes \cup {[ok |-> TRUE, data |-> Snapshot2], [ok |-> TRUE, data |-> Snapshot3]}

\* the seconds the loop asks asyncio.sleep for, always the full interval
SleepSecondsFull(pc) == poll_interval_seconds

\* the seconds the loop asks asyncio.sleep for: min(5.0, interval) after a
\* ConnectionError (line 666), interval otherwise (line 675)
SleepSeconds(pc) ==
    IF pc = "retry_wait"
    THEN (IF retry_delay_seconds <= poll_interval_seconds THEN retry_delay_seconds
          ELSE poll_interval_seconds)
    ELSE poll_interval_seconds

\* where the loop goes when the try block of an iteration is left with exc:
\* except ConnectionError (lines 660-666), except Exception (lines 668-670),
\* or no exception
AfterIterationNarrow(exc) ==
    IF exc = None THEN "interval_wait"
    ELSE IF exc = ConnectionError THEN "retry_wait"
    ELSE "raised"

AfterIteration(exc) ==
    IF exc = ConnectionError THEN "retry_wait" ELSE "interval_wait"

\* the iteration whose try block was left with exc, in its sleep
IterEnd(exc) ==
    [IterStart EXCEPT !.phase = "sleeping", !.exc = exc,
                      !.seconds = SleepSeconds(AfterIteration(exc))]

\* one poll cycle in the log: the read, the availability before and after,
\* the deliveries and the exception that left poll_and_publish
LogEntry(read, before, p) ==
    [read |-> read, before |-> before, after |-> p.available, sent |-> p.sent,
     exc |-> p.exc]

Logged(log, entry) ==
    IF Len(log) < 2 THEN Append(log, entry) ELSE <<log[2], entry>>

\* self._running = True (line 637)
LoopStart ==
    /\ loop_pc = "init"
    /\ running' = TRUE
    /\ loop_pc' = "top"
    /\ UNCHANGED <<core, pollLog, sleep_left, stop_at, cmd, call, rc, host, iter, sub>>

\* while self._running, and the mqtt.is_connected test (lines 642-645)
LoopTest ==
    /\ loop_pc = "top"
    /\ loop_pc' = IF ~running THEN "returned"
                  ELSE IF ~mqtt_connected THEN "mqtt_reconnect"
                  ELSE "check_modbus"
    /\ sleep_left' = IF running /\ ~mqtt_connected THEN SleepSteps ELSE sleep_left
    /\ UNCHANGED <<core, pollLog, running, stop_at, cmd, call, rc, host, iter, sub>>

\* the sleeps of the loop and of reconnect_with_backoff running down
Wait ==
    /\ loop_pc \in {"retry_wait", "interval_wait", "mqtt_reconnect", "modbus_reconnect"}
    /\ sleep_left > 0
    /\ sleep_left' = sleep_left - 1
    /\ UNCHANGED <<core, pollLog, loop_pc, running, stop_at, cmd, call, rc, host, iter, sub>>

\* a sleep of the loop has elapsed: continue, or fall to the while test
WakeUp ==
    /\ loop_pc \in {"retry_wait", "interval_wait"}
    /\ sleep_left = 0
    /\ loop_pc' = "top"
    /\ iter' = IterStart
    /\ UNCHANGED <<core, pollLog, running, sleep_left, stop_at, cmd, call, rc, host, sub>>

\* MQTTClient.reconnect_with_backoff: one connect attempt after its sleep;
\* a failed attempt sleeps again, a successful one returns and the loop
\* publishes availability (line 651), which raises when the broker drops
MqttReconnect(ok, budget) ==
    /\ loop_pc = "mqtt_reconnect"
    /\ sleep_left = 0
    /\ IF ~ok
       THEN /\ sleep_left' = SleepSteps
            /\ UNCHANGED <<core, loop_pc, iter>>
       ELSE \E r \in {publish_availability([connected |-> TRUE, budget |-> budget], TRUE)} :
            /\ mqtt_connected' = r.bus.connected
            /\ loop_pc' = IF r.exc # None THEN AfterIteration(r.exc) ELSE "check_modbus"
            /\ sleep_left' = IF r.exc # None THEN SleepSteps ELSE 0
            /\ iter' = IF r.exc # None THEN IterEnd(r.exc)
                       ELSE [iter EXCEPT !.mqtt_reconnected = TRUE, !.online = r.sent]
            /\ UNCHANGED <<now, last_write, available, written_at, lastOp, ret,
                           validator, vout>>
    /\ UNCHANGED <<pollLog, running, stop_at, cmd, call, rc, host, sub>>

\* the modbus test going on to the poll whatever is_connected says
CheckModbusNoReconnect(modbus_is_connected) ==
    /\ loop_pc = "check_modbus"
    /\ loop_pc' = "polling"
    /\ iter' = [iter EXCEPT !.modbus = IF modbus_is_connected THEN "connected"
                                       ELSE "disconnected"]
    /\ UNCHANGED <<core, pollLog, running, sleep_left, stop_at, cmd, call, rc, host, sub>>

\* if not self.modbus.is_connected (line 653)
CheckModbus(modbus_is_connected) ==
    /\ loop_pc = "check_modbus"
    /\ loop_pc' = IF modbus_is_connected THEN "polling" ELSE "modbus_reconnect"
    /\ sleep_left' = IF modbus_is_connected THEN sleep_left ELSE SleepSteps
    /\ iter' = [iter EXCEPT !.modbus = IF modbus_is_connected THEN "connected"
                                       ELSE "disconnected"]
    /\ UNCHANGED <<core, pollLog, running, stop_at, cmd, call, rc, host, sub>>

\* modbus.reconnect_with_backoff: one connect attempt after its sleep
ModbusReconnect(ok) ==
    /\ loop_pc = "modbus_reconnect"
    /\ sleep_left = 0
    /\ loop_pc' = IF ok THEN "polling" ELSE loop_pc
    /\ sleep_left' = IF ok THEN 0 ELSE SleepSteps
    /\ iter' = IF ok THEN [iter EXCEPT !.modbus = "reconnected"] ELSE iter
    /\ UNCHANGED <<core, pollLog, running, stop_at, cmd, call, rc, host, sub>>

\* await self.poll_and_publish() and what the loop does with its exception
LoopPoll(budget, read) ==
    /\ loop_pc = "polling"
    /\ PollCycle(budget, read)
    /\ \E p \in {poll_and_publish(available,
                                  [connected |-> mqtt_connected, budget |-> budget], read)} :
        /\ pollLog' = Logged(pollLog, LogEntry(read, available, p))
        /\ loop_pc' = AfterIteration(p.exc)
        /\ iter' = IterEnd(p.exc)
    /\ sleep_left' = SleepSteps
    /\ UNCHANGED <<running, stop_at, cmd, call, rc, host, sub>>

\* ModbusMQTTBridge.stop (lines 682-685), called while the loop runs
Stop ==
    /\ loop_pc \notin LoopDone \cup {"init"}
    /\ running
    /\ running' = FALSE
    /\ stop_at' = [pc |-> loop_pc, sleep_left |-> sleep_left]
    /\ UNCHANGED <<core, pollLog, loop_pc, sleep_left, cmd, call, rc, host, iter, sub>>

\* the loop's task cancelled while it awaits (__main__.py line 137): the
\* interval sleep catches CancelledError and breaks, elsewhere it propagates
Cancel ==
    /\ loop_pc \in {"mqtt_reconnect", "modbus_reconnect", "polling", "retry_wait",
                    "interval_wait"}
    /\ loop_pc' = IF loop_pc = "interval_wait" THEN "broke" ELSE "cancelled"
    /\ UNCHANGED <<core, pollLog, running, sleep_left, stop_at, cmd, call, rc, host, iter, sub>>

\* the steps of the loop's own task
LoopStep ==
    \/ LoopStart
    \/ LoopTest
    \/ Wait
    \/ WakeUp
    \/ \E ok \in BOOLEAN, budget \in Budgets : MqttReconnect(ok, budget)
    \/ \E modbus_is_connected \in BOOLEAN : CheckModbus(modbus_is_connected)
    \/ \E ok \in BOOLEAN : ModbusReconnect(ok)
    \/ \E budget \in PollBudgets, read \in LoopReads : LoopPoll(budget, read)

NextLoop ==
    \/ LoopStep
    \/ Stop
    \/ Cancel

SpecLoop == Init /\ [][NextLoop]_vars

\* the event loop keeps running the loop's task: every await of it completes
SpecLoopFair == SpecLoop /\ WF_vars(LoopStep)

\* ------------------------------------------------------------------------
\* Command handling on a task of its own, beside the polling loop
\*   handle_command suspends at each await; the one told apart here is the
\*   await of the device write (write_method, lines 587-600): the handler has
\*   parsed the topic and passed the rate limiter, which has stamped the
\*   write, and the rest of the handler runs when the write returns
\* ------------------------------------------------------------------------
\* the button presses delivered to the command task
TaskCommands ==
    { Cmd(CommandTopic(DhwBase, <<"one_time", "_", "heating">>), "press"),
      Cmd(CommandTopic(DhwBase, <<"heating">>), "press") }

\* the handler run up to the await of its device write
CommandBegin(topic, payload) ==
    /\ cmd.pc = "idle"
    /\ \E st \in {handle_command(last_write, available,
                                 [connected |-> mqtt_connected, budget |-> -1],
                                 [t |-> now, topic |-> topic, payload |-> payload,
                                  write_exc |-> None,
                                  read |-> [ok |-> TRUE, data |-> Snapshot1]])} :
        /\ st.writes # <<>>
        /\ last_write' = st.last_write
    /\ cmd' = [pc |-> "writing", topic |-> topic, payload |-> payload, t |-> now,
               last_write |-> last_write]
    /\ UNCHANGED <<now, available, mqtt_connected, written_at, lastOp, ret, validator,
                   vout, pollLog, loop_pc, running, sleep_left, stop_at, call,
                   rc, host, iter, sub>>

\* the device write returns or raises, and the handler runs to its end
CommandEnd(budget, write_exc, read) ==
    /\ cmd.pc = "writing"
    /\ \E st \in {handle_command(cmd.last_write, available,
                                 [connected |-> mqtt_connected, budget |-> budget],
                                 [t |-> cmd.t, topic |-> cmd.topic,
                                  payload |-> cmd.payload, write_exc |-> write_exc,
                                  read |-> read])} :
        /\ last_write' = st.last_write
        /\ available' = st.available
        /\ mqtt_connected' = st.bus.connected
        /\ written_at' = Stamp(written_at, st, cmd.t)
        /\ lastOp' = [op |-> "handle_command", topic |-> cmd.topic,
                      payload |-> cmd.payload, t |-> cmd.t, st |-> st,
                      prev_last_write |-> cmd.last_write,
                      prev_written_at |-> Get(written_at, <<st.device, st.attribute>>, -1)]
    /\ cmd' = [pc |-> "idle"]
    /\ UNCHANGED <<now, ret, validator, vout, pollLog, loop_pc, running, sleep_left,
                   stop_at, call,
                   rc, host, iter, sub>>

\* the bulk reads of the loop while commands arrive
TaskReads == {[ok |-> TRUE, data |-> Snapshot1], [ok |-> FALSE, exc |-> "ModbusException"]}

\* the loop with both collaborators answering, and the command task
NextTasks ==
    \/ LoopStart
    \/ LoopTest
    \/ Wait
    \/ WakeUp
    \/ MqttReconnect(TRUE, -1)
    \/ CheckModbus(TRUE)
    \/ \E read \in TaskReads : LoopPoll(-1, read)
    \/ \E c \in TaskCommands : CommandBegin(c.topic, c.payload)
    \/ \E e \in Envs : CommandEnd(e.budget, e.write_exc, e.read)

SpecTasks == Init /\ [][NextTasks]_vars

\* ------------------------------------------------------------------------
\* The filter and the two enumeration tables on their own: each called with
\* the attributes of mappings.py and values around the limits
\* ------------------------------------------------------------------------
\* a sensor of the attribute tables, as far as the filter reads it, with the
\* device class of its ha_config
Sensor(method_name, ha_component, device_class) ==
    [method_name |-> method_name, ha_component |-> ha_component,
     device_class |-> device_class]

\* HEAT_PUMP_ATTRIBUTES, lines 28-92 (the temperatures), 96, 198
HeatPumpSensors ==
    { Sensor("outdoor_temperature", "sensor", "temperature"),
      Sensor("supply_temp_heat_pump", "sensor", "temperature"),
      Sensor("return_temp_heat_pump", "sensor", "temperature"),
      Sensor("energy_source_inlet", "sensor", "temperature"),
      Sensor("energy_source_outlet", "sensor", "temperature"),
      Sensor("power_total", "sensor", "power"),
      Sensor("global_alarm", "binary_sensor", "problem") }

\* STORAGE_SYSTEM_ATTRIBUTES, lines 269-455
StorageSensors ==
    { Sensor("t1_temperature", "sensor", "temperature"),
      Sensor("t4_temperature", "sensor", "temperature"),
      Sensor("outdoor_temperature_avg", "sensor", "temperature"),
      Sensor("heating_setpoint", "sensor", "temperature"),
      Sensor("heating_actual", "sensor", "temperature"),
      Sensor("heating_circuit_setpoint", "sensor", "temperature"),
      Sensor("heating_circuit_actual", "sensor", "temperature"),
      Sensor("heating_circuit_status", "sensor", None),
      Sensor("heating_circuit_operating_mode", "sensor", None),
      Sensor("hot_water_setpoint", "sensor", "temperature"),
      Sensor("hot_water_actual", "sensor", "temperature"),
      Sensor("hot_water_setpoint_constant", "sensor", "temperature"),
      Sensor("cooling_actual", "sensor", "temperature"),
      Sensor("cooling_mode_active", "binary_sensor", None) }

\* the sensors a device of the type is given by discover_devices
SensorsOf(device_type) ==
    IF device_type = "heat_pump" THEN HeatPumpSensors ELSE StorageSensors

\* raw readings: None, the zeros 0.0, 0 and False, True, 3.5, and the values
\* at and beyond the limits (a tuple: the readings are of different types)
FilterValues ==
    << [t |-> "none"], F(0), [t |-> "int", v |-> 0], [t |-> "bool", v |-> FALSE],
      [t |-> "bool", v |-> TRUE], F(3 * ValueScale + ValueScale \div 2),
      F((0 - 50) * ValueScale - 1), F((0 - 50) * ValueScale),
      F(100 * ValueScale), F(100 * ValueScale + 1), F(150 * ValueScale) >>

FilterCall(device_type, attribute, value) ==
    /\ call' = [op |-> "should_publish_attribute", device_type |-> device_type,
                attribute |-> attribute, value |-> value,
                result |-> should_publish_attribute(device_type, attribute, value)]
    /\ UNCHANGED <<core, pollLog, loop_pc, running, sleep_left, stop_at, cmd,
                   rc, host, iter, sub>>

\* the enumerations of the two select controls, each with the sensor that
\* publishes it and the control that takes it back
SelectEnums ==
    { [enum |-> "SeasonSelection", sensor |-> "season_selection_manual",
       control |-> "set_season_selection_manual"],
      [enum |-> "EnergyMode", sensor |-> "heating_circuit_energy_mode",
       control |-> "set_heating_circuit_energy_mode"] }

\* the token _publish_device_state publishes for raw value k of the enum
Encode(e, k) ==
    TransformValue(Attr(e.sensor, <<>>, FALSE, "sensor", e.enum), [t |-> "int", v |-> k])

\* lines 503-546: payload.strip().lower() looked up in the inverse table of
\* the control; None when the table has no such key
Decode(e, payload) ==
    IF e.control = "set_season_selection_manual"
    THEN IF StripLower(payload) \in DOMAIN season_reverse_map
         THEN season_reverse_map[StripLower(payload)] ELSE None
    ELSE IF StripLower(payload) \in DOMAIN energy_reverse_map
         THEN energy_reverse_map[StripLower(payload)] ELSE None

\* a member published and its token taken back
RoundTrip(e, k) ==
    /\ call' = [op |-> "round_trip", enum |-> e.enum, member |-> EnumName(e.enum, [t |-> "int", v |-> k]),
                token |-> Encode(e, k), decoded |-> Decode(e, Encode(e, k).text)]
    /\ UNCHANGED <<core, pollLog, loop_pc, running, sleep_left, stop_at, cmd,
                   rc, host, iter, sub>>

\* raw values that are no member of HeatPumpStatus or SeasonSelection: 7, -1
\* and 2.5
UnknownEnumValues ==
    << [t |-> "int", v |-> 7], [t |-> "int", v |-> 0 - 1],
       F(2 * ValueScale + ValueScale \div 2) >>

\* a bulk-read result in which the status of the heat pump and the season
\* selection of the heating storage read raw, and other values follow them
UnknownEnumData(raw) ==
    [heat_pump |->
        [outdoor_temperature |-> F(5 * ValueScale),
         heat_pump_status |-> raw,
         global_alarm |-> [t |-> "bool", v |-> TRUE]],
     storage_heating |->
        [t4_temperature |-> F(5 * ValueScale),
         season_selection_manual |-> raw],
     storage_dhw |->
        [hot_water_actual |-> F(48 * ValueScale),
         season_selection_manual |-> F(ValueScale)]]

\* the broker failing at the first, second, ... publish of the cycle, or never
UnknownEnumBudgets == (0 - 1)..8

\* poll_and_publish on such a bulk-read result, every device available
UnknownEnumPoll(raw, budget) ==
    /\ call' = [op |-> "poll_and_publish", raw |-> raw, budget |-> budget,
                result |-> poll_and_publish(AllAvailable(TRUE),
                                            [connected |-> TRUE, budget |-> budget],
                                            [ok |-> TRUE, data |-> UnknownEnumData(raw)])]
    /\ UNCHANGED <<core, pollLog, loop_pc, running, sleep_left, stop_at, cmd,
                   rc, host, iter, sub>>

NextFunctions ==
    \/ \E k \in DOMAIN UnknownEnumValues, budget \in UnknownEnumBudgets :
            UnknownEnumPoll(UnknownEnumValues[k], budget)
    \/ \E device_type \in KnownDeviceTypes, k \in DOMAIN FilterValues :
        \E attribute \in HeatPumpSensors \cup StorageSensors :
            FilterCall(device_type, attribute, FilterValues[k])
    \/ \E e \in SelectEnums : \E k \in 0..(Len(EnumNames(e.enum)) - 1) : RoundTrip(e, k)

SpecFunctions == Init /\ [][NextFunctions]_vars

\* ------------------------------------------------------------------------
\* mqtt_client.py: reconnect_with_backoff on its own
\*   rc is one call: the configured delay and ceiling, current_delay, the
\*   asyncio.sleep calls made so far (sleeps), and the number of connect()
\*   calls that will still fail (failures_left) and that have failed (failed).
\*   Delays are in seconds.
\* ------------------------------------------------------------------------
MaxFailures == 3

\* advanced.mqtt_reconnect_delay and advanced.mqtt_max_reconnect_delay: the
\* defaults (1, 60) and values at the limits of their fields; the ceiling
\* may lie below the delay
ReconnectDelays == {1, 20, 60}

ReconnectCeilings == {1, 60, 300}

Min(a, b) == IF a <= b THEN a ELSE b

\* current_delay = self._reconnect_delay (line 149)
ReconnectCall(delay, ceiling, failures) ==
    /\ rc.pc = "idle"
    /\ rc' = [pc |-> "sleeping", delay |-> delay, ceiling |-> ceiling,
              current_delay |-> delay, sleeps |-> <<>>, failures_left |-> failures,
              failed |-> 0]
    /\ UNCHANGED <<core, pollLog, loop_pc, running, sleep_left, stop_at, cmd, call, host, iter, sub>>

\* await asyncio.sleep(current_delay) (line 153)
ReconnectSleep ==
    /\ rc.pc = "sleeping"
    /\ rc' = [rc EXCEPT !.pc = "connecting", !.sleeps = Append(@, rc.current_delay)]
    /\ UNCHANGED <<core, pollLog, loop_pc, running, sleep_left, stop_at, cmd, call, host, iter, sub>>

\* await self.connect(): return, or back off (lines 155-165)
ReconnectConnect ==
    /\ rc.pc = "connecting"
    /\ rc' = IF rc.failures_left = 0
             THEN [rc EXCEPT !.pc = "returned"]
             ELSE [rc EXCEPT !.pc = "sleeping", !.failures_left = @ - 1,
                             !.failed = @ + 1,
                             !.current_delay = Min(rc.current_delay * 2, rc.ceiling)]
    /\ UNCHANGED <<core, pollLog, loop_pc, running, sleep_left, stop_at, cmd, call, host, iter, sub>>

\* the call has returned; the client may be asked to reconnect again
ReconnectDone ==
    /\ rc.pc = "returned"
    /\ rc' = [pc |-> "idle"]
    /\ UNCHANGED <<core, pollLog, loop_pc, running, sleep_left, stop_at, cmd, call, host, iter, sub>>

NextReconnect ==
    \/ \E delay \in ReconnectDelays, ceiling \in ReconnectCeilings, failures \in 0..MaxFailures :
            ReconnectCall(delay, ceiling, failures)
    \/ ReconnectSleep
    \/ ReconnectConnect
    \/ ReconnectDone

SpecReconnect == Init /\ [][NextReconnect]_vars

\* ------------------------------------------------------------------------
\* Properties
\* ------------------------------------------------------------------------
\* the command topic of the domestic-hot-water setpoint control
DhwSetpointTopic == CommandTopic(DhwBase, <<"hot_water", "_", "setpoint">>)

\* the control name of an attribute: the last segment of its topic suffix
ControlName(attribute) ==
    Split(attribute.mqtt_topic_suffix)[Len(Split(attribute.mqtt_topic_suffix))]

\* C1: a command for the domestic-hot-water setpoint control that passes the
\* rate limit and whose parsed value is below 40 or above 60 performs no
\* device write, and handle_command publishes the range validator's reason,
\* and nothing else, to {topic}/error.
C1_OutOfRangeRejectedWithReason ==
    (/\ lastOp.op = "handle_command"
     /\ lastOp.topic = DhwSetpointTopic
     /\ lastOp.st.rate_ok
     /\ ParseFloat(lastOp.payload).ok
     /\ ~SafetyValidatorValidate(create_dhw_validator, ParseFloat(lastOp.payload).v).ok)
    => /\ lastOp.st.writes = <<>>
       /\ lastOp.st.errors =
            << [topic |-> ErrorTopic(lastOp.topic),
                error |-> SafetyValidatorValidate(create_dhw_validator,
                                                  ParseFloat(lastOp.payload).v).msg] >>

\* C2: the domestic-hot-water validator accepts v exactly when 40 <= v <= 60:
\* it returns (True, "OK") inside the closed interval and (False, reason)
\* outside it, just below 40 and just above 60 included.
C2_DhwAcceptsClosedInterval ==
    vout.op = "validate" =>
        /\ vout.result.ok <=> (/\ DhwMinDegrees * ValueScale <= vout.value
                               /\ vout.value <= DhwMaxDegrees * ValueScale)
        /\ vout.result.ok => vout.result.msg = [kind |-> "OK"]
        /\ ~vout.result.ok => vout.result.msg.kind = "outside_safe_range"

\* a bound of the interval was validated and accepted
C2_Witness ==
    /\ vout.op = "validate"
    /\ vout.value = DhwMaxDegrees * ValueScale
    /\ vout.result.ok

\* C3: a command for the domestic-hot-water setpoint that resolves its device
\* and attribute, passes the rate limit and lies inside the safe range makes
\* handle_command invoke set_hot_water_setpoint_constant exactly once with the
\* parsed value, and when the write and the poll after it succeed nothing is
\* published to the command's error topic.
C3_ValidNumberWrittenOnce ==
    (/\ lastOp.op = "handle_command"
     /\ lastOp.topic = DhwSetpointTopic
     /\ lastOp.st.rate_ok
     /\ ParseFloat(lastOp.payload).ok
     /\ SafetyValidatorValidate(create_dhw_validator, ParseFloat(lastOp.payload).v).ok)
    => /\ Len(lastOp.st.writes) = 1
       /\ lastOp.st.writes[1].method_name = "set_hot_water_setpoint_constant"
       /\ lastOp.st.writes[1].value = [t |-> "float", v |-> ParseFloat(lastOp.payload).v]
       /\ (lastOp.st.writes[1].ok /\ lastOp.st.poll.exc = None) => lastOp.st.errors = <<>>

\* C4: the first can_write for a key never written returns True, and a
\* can_write less than min_interval after the accepted one returns False with
\* a message whose wait time is positive and at most min_interval.
C4_BlockedWithPositiveWait ==
    ret.op = "can_write" =>
        /\ ret.parameter \notin DOMAIN ret.prev => ret.ok
        /\ (/\ ret.parameter \in DOMAIN ret.prev
            /\ ret.t - ret.prev[ret.parameter] < min_interval)
           => /\ ~ret.ok
              /\ ret.msg.kind = "rate_limit"
              /\ ret.msg.wait > 0
              /\ ret.msg.wait <= min_interval_seconds

\* C5: two device writes to the same writable attribute of the same device
\* are never performed less than min_interval apart.
C5_WritesSpacedByInterval ==
    (/\ lastOp.op = "handle_command"
     /\ \E k \in 1..Len(lastOp.st.writes) : lastOp.st.writes[k].ok
     /\ lastOp.prev_written_at # -1)
    => lastOp.t - lastOp.prev_written_at >= min_interval

\* C6: the rate limiter's map changes only in a handle_command invocation
\* that performs the device write.
C6_StampOnlyOnAcceptedWrite ==
    (/\ lastOp.op = "handle_command"
     /\ lastOp.st.last_write # lastOp.prev_last_write)
    => \E k \in 1..Len(lastOp.st.writes) : lastOp.st.writes[k].ok

\* C7: a can_write call that returns False leaves the whole last_write map
\* unchanged; one that returns True changes only its own key, to a clock
\* reading no earlier than the key's previous one.
C7_CanWriteFrame ==
    ret.op = "can_write" =>
        /\ ~ret.ok => ret.last_write = ret.prev
        /\ ret.ok => /\ ret.last_write = Put(ret.prev, ret.parameter, ret.t)
                     /\ ret.t >= Get(ret.prev, ret.parameter, 0)

\* a call was rejected while the map held both keys
C7_Witness ==
    /\ ret.op = "can_write"
    /\ ~ret.ok
    /\ DOMAIN ret.prev = RlKeys

C9_WriteOnlyOnNamedControl ==
    lastOp.op = "handle_command" =>
        /\ lastOp.st.writes # <<>> =>
              /\ devices[lastOp.st.device].attributes[lastOp.st.attribute].writable
              /\ StartsWith(lastOp.topic, devices[lastOp.st.device].mqtt_base_topic)
              /\ ControlName(devices[lastOp.st.device].attributes[lastOp.st.attribute])
                    = lastOp.st.control_name
        /\ lastOp.st.stage \in {"no_device", "no_attribute"} =>
              /\ Len(lastOp.st.errors) = 1
              /\ lastOp.st.errors[1].topic = ErrorTopic(lastOp.topic)
              /\ lastOp.st.writes = <<>>
              /\ lastOp.st.last_write = lastOp.prev_last_write

\* C10: when anything raises inside poll_and_publish, on exit every device is
\* unavailable, "offline" has been published to the availability topics as
\* far as the broker took it (a failure there is swallowed), and the exception
\* that leaves is the one that was raised.
C10_PollFailureMarksOffline ==
    (lastOp.op = "poll_and_publish" /\ lastOp.cause # None) =>
        /\ \A i \in DeviceIx : ~lastOp.available[i]
        /\ lastOp.offline_attempts >= 1
        /\ lastOp.connected =>
              \A i \in DeviceIx :
                  \E k \in 1..Len(lastOp.sent) :
                      lastOp.sent[k] = AvailabilityMsg(devices[i], FALSE)
        /\ lastOp.exc = lastOp.cause

\* the bulk read raised and the offline publish failed as well
C10_Witness ==
    /\ lastOp.op = "poll_and_publish"
    /\ lastOp.cause = "ModbusException"
    /\ lastOp.offline_attempts = 1
    /\ ~lastOp.connected
    /\ lastOp.exc = "ModbusException"

\* ------------------------------------------------------------------------
\* Properties of the poll cycle and the polling loop
\* ------------------------------------------------------------------------
IsAvailabilityMsg(m) == \E i \in DeviceIx : m.topic = get_availability_topic(devices[i])

\* the availability messages among the deliveries of a cycle, in order
AvailabilityMsgs(sent) == SelectSeq(sent, IsAvailabilityMsg)

IsStateMsg(m) == ~IsAvailabilityMsg(m)

\* the (state topic, payload) pairs among the deliveries of a cycle, in order
StatePairs(sent) ==
    [k \in 1..Len(SelectSeq(sent, IsStateMsg)) |->
        <<SelectSeq(sent, IsStateMsg)[k].topic, SelectSeq(sent, IsStateMsg)[k].payload>>]

IsPrefix(a, b) == Len(a) <= Len(b) /\ SubSeq(b, 1, Len(a)) = a

LastPoll == pollLog[Len(pollLog)]

\* C11: a poll cycle that follows a failed one starts with devices
\* unavailable; a successful cycle that starts with a device unavailable
\* leaves every device available and publishes "online", retained, to every
\* device's availability topic, in device order; a successful cycle that
\* starts with every device available publishes no availability message.
C11_RecoveryPublishesOnline ==
    /\ \A k \in 1..Len(pollLog) :
        pollLog[k].exc = None =>
            /\ \A i \in DeviceIx : pollLog[k].after[i]
            /\ AvailabilityMsgs(pollLog[k].sent) =
                   IF \A i \in DeviceIx : pollLog[k].before[i]
                   THEN <<>>
                   ELSE [i \in DeviceIx |-> AvailabilityMsg(devices[i], TRUE)]
    /\ (Len(pollLog) = 2 /\ pollLog[1].exc # None) =>
            \A i \in DeviceIx : ~pollLog[2].before[i]

\* a failed cycle followed by a successful one
C11_Witness ==
    /\ Len(pollLog) = 2
    /\ pollLog[1].exc # None
    /\ pollLog[2].exc = None
    /\ \A i \in DeviceIx : available[i]

\* C12: between the steps of the polling loop, a device is unavailable only
\* if the most recently completed poll cycle failed; when the most recently
\* completed poll cycle succeeded (or none has run), every device is
\* available.
C12_UnavailableOnlyAfterFailedPoll ==
    /\ (\E i \in DeviceIx : ~available[i]) =>
            (pollLog # <<>> /\ LastPoll.exc # None) \/ ~mqtt_connected
    /\ (pollLog = <<>> \/ LastPoll.exc = None) => \A i \in DeviceIx : available[i]

\* a failed cycle has left the devices unavailable, and a successful cycle
\* has made them available again
C12_Witness ==
    /\ Len(pollLog) = 2
    /\ pollLog[1].exc = "ModbusException"
    /\ \E i \in DeviceIx : ~pollLog[1].after[i]
    /\ LastPoll.exc = None
    /\ \A i \in DeviceIx : available[i]

\* C14: no exception of an iteration leaves run_polling_loop; the loop has
\* returned only after stop() was called, and has otherwise ended only by
\* the cancellation of its task.
C14_LoopSurvivesExceptions ==
    /\ loop_pc # "raised"
    /\ loop_pc = "returned" => (~running /\ stop_at.pc # "none")
    /\ (pollLog # <<>> /\ LastPoll.exc # None /\ stop_at.pc = "none") =>
            loop_pc \notin {"returned", "raised"}

\* after a cycle that raised something other than a connection error, the
\* loop has reached the poll of a later iteration
C14_Witness ==
    /\ pollLog # <<>>
    /\ LastPoll.exc = "ModbusException"
    /\ loop_pc = "polling"
    /\ running

\* C15: once stop() has been called during the interval wait, the loop's
\* task does not go on waiting (its next step leaves the wait), and it
\* starts no other poll cycle, reconnection or retry wait.
C15_StopInterruptsIntervalWait ==
    [][stop_at.pc = "interval_wait" =>
          /\ loop_pc = "interval_wait" => loop_pc' # "interval_wait"
          /\ loop_pc' \notin {"mqtt_reconnect", "check_modbus", "modbus_reconnect",
                              "polling", "retry_wait"}]_vars

\* C16: after stop() the loop eventually ends, in whichever phase it was.
C16_StopEventuallyReturns ==
    (stop_at.pc # "none") ~> (loop_pc \in LoopDone)

\* C20: of two consecutive poll cycles with the same bulk-read result, the
\* (state topic, payload) sequences are equal when both cycles succeed, and
\* one is a prefix of the other when a publish failure cuts one short.
C20_SameReadSamePayloads ==
    (Len(pollLog) = 2 /\ pollLog[1].read = pollLog[2].read) =>
        /\ \/ IsPrefix(StatePairs(pollLog[1].sent), StatePairs(pollLog[2].sent))
           \/ IsPrefix(StatePairs(pollLog[2].sent), StatePairs(pollLog[1].sent))
        /\ (pollLog[1].exc = None /\ pollLog[2].exc = None) =>
                StatePairs(pollLog[1].sent) = StatePairs(pollLog[2].sent)

\* two successful cycles with the same read, the first one recovering from
\* a failure and the second one not
C20_Witness ==
    /\ Len(pollLog) = 2
    /\ pollLog[1].read = pollLog[2].read
    /\ pollLog[1].read.ok
    /\ pollLog[1].exc = None /\ pollLog[2].exc = None
    /\ pollLog[1].before # pollLog[2].before
    /\ StatePairs(pollLog[2].sent) # <<>>

\* C13: the bulk read of the scheduled poll cycle and the device write of a
\* command are never in flight together.
C13_OneOperationPerCollaborator ==
    ~(loop_pc = "polling" /\ cmd.pc = "writing")

\* C16: after stop() during the reconnection to the broker, the loop leaves
\* MQTTClient.reconnect_with_backoff.
C16_StopEndsMqttReconnect ==
    (stop_at.pc = "mqtt_reconnect") ~> (loop_pc # "mqtt_reconnect")

C18_TemperatureClassRangeGuard ==
    (/\ call.op = "should_publish_attribute"
     /\ call.attribute.ha_component = "sensor"
     /\ call.attribute.device_class = "temperature"
     /\ call.value.t = "float") =>
        IF call.value.v < (0 - 50) * ValueScale \/ call.value.v > 100 * ValueScale
        THEN ~call.result
        ELSE ~call.result =>
                \/ (call.device_type = "storage_dhw"
                    /\ call.attribute.method_name \in HEATING_ONLY_ATTRIBUTES)
                \/ (call.device_type = "storage_heating"
                    /\ call.attribute.method_name \in DHW_ONLY_ATTRIBUTES)

HeatingBase == devices[2].mqtt_base_topic

SetpointTopic == CommandTopic(DhwBase, <<"hot_water", "_", "setpoint">>)

ButtonTopic == CommandTopic(DhwBase, <<"one_time", "_", "heating">>)

SeasonTopic == CommandTopic(HeatingBase, <<"season_selection">>)

EnergyTopic == CommandTopic(HeatingBase, <<"energy_mode">>)

\* messages on well-formed command topics
ControlCommands ==
    { Cmd(SetpointTopic, "45"), Cmd(SetpointTopic, "abc"), Cmd(SetpointTopic, ""),
      Cmd(ButtonTopic, "press"), Cmd(ButtonTopic, "1"), Cmd(ButtonTopic, "abc"),
      Cmd(ButtonTopic, ""),
      Cmd(SeasonTopic, " Heat "), Cmd(SeasonTopic, "bogus"), Cmd(SeasonTopic, ""),
      Cmd(EnergyTopic, "comfort"), Cmd(EnergyTopic, "turbo"),
      Cmd(CommandTopic(DhwBase, <<"bogus">>), "45"),
      Cmd(CommandTopic(<<"kermi", "/", "other", "/", "storage", "_", "dhw">>,
                       <<"one_time", "_", "heating">>), "press") }

\* messages on topics that are no command topics
MalformedCommands ==
    { Cmd(DhwBase \o <<"/", "controls", "/", "hot_water", "_", "setpoint">>, "45"),
      Cmd(DhwBase \o <<"/", "set">>, "45"),
      Cmd(<<"set">>, "press"),
      Cmd(DhwBase \o <<"/", "controls", "/", "one_time", "_", "heating", "/", "now",
                       "/", "set">>, "press"),
      Cmd(DhwBase \o <<"/", "sensors", "/", "hot_water", "_", "setpoint", "/", "set">>,
          "45") }

\* the topics the bridge publishes to under base_topic: the state topic of
\* every attribute of every device, every availability topic, and the error
\* topic of every command topic
StateTopics ==
    UNION {{get_mqtt_topic(devices[i], devices[i].attributes[j]) :
                j \in 1..Len(devices[i].attributes)} : i \in DeviceIx}

AvailabilityTopics == {get_availability_topic(devices[i]) : i \in DeviceIx}

ErrorTopics == {ErrorTopic(c.topic) : c \in ControlCommands}

BridgeTopics == StateTopics \cup AvailabilityTopics \cup ErrorTopics

\* the bridge's own messages as the subscription hands them back
EchoedCommands ==
    {Cmd(t, "45") : t \in StateTopics} \cup {Cmd(t, "online") : t \in AvailabilityTopics}
        \cup {Cmd(t, "abc") : t \in ErrorTopics}

CommandInputs == ControlCommands \cup MalformedCommands \cup EchoedCommands

NextCommands ==
    \/ \E c \in CommandInputs, e \in Envs :
            HandleCommand(c.topic, c.payload, e.budget, e.write_exc, e.read)
    \/ MqttConnect

SpecCommands == Init /\ [][NextCommands]_vars

\* ------------------------------------------------------------------------
\* The write block of handle_command (lines 582-610) on its own: entered
\* for a writable control with the value parsed for it, as it is once the
\* checks before it have let the command through
\* ------------------------------------------------------------------------
\* the positions <<device, attribute>> of the writable controls
WritableControls ==
    {c \in DeviceIx \X (1..Len(STORAGE_SYSTEM_ATTRIBUTES)) :
        /\ c[2] <= Len(devices[c[1]].attributes)
        /\ devices[c[1]].attributes[c[2]].writable}

\* a parsed_value for the control
ParsedValue(attribute) ==
    CASE attribute.ha_component = "number" -> [t |-> "float", v |-> 45 * ValueScale]
      [] attribute.method_name = "set_season_selection_manual" ->
            [t |-> "SeasonSelection", v |-> season_reverse_map["heat"]]
      [] attribute.method_name = "set_heating_circuit_energy_mode" ->
            [t |-> "EnergyMode", v |-> energy_reverse_map["comfort"]]
      [] OTHER -> [t |-> "int", v |-> 1]

\* the handler run as it stands at line 582 for control j of device i
AtWrite(i, j, bus) ==
    [HandlerEntry(last_write, available, bus) EXCEPT
        !.device = i, !.attribute = j, !.rate_ok = TRUE,
        !.control_name = ControlName(devices[i].attributes[j]),
        !.key = RateKey(devices[i], ControlName(devices[i].attributes[j]))]

ControlTopic(i, j) ==
    CommandTopic(devices[i].mqtt_base_topic, ControlName(devices[i].attributes[j]))

\* what the device write, the broker and the bulk read do during the block
WriteEnvs ==
    {e \in [budget : PollBudgets, write_exc : WriteOutcomes, read : LoopReads] :
        e.write_exc # None => e.read = [ok |-> TRUE, data |-> Snapshot1]}

WriteBlock(i, j, budget, write_exc, read) ==
    \E st \in {ExecuteWrite(AtWrite(i, j, [connected |-> mqtt_connected,
                                           budget |-> budget]),
                            [t |-> now, topic |-> ControlTopic(i, j), payload |-> "",
                             write_exc |-> write_exc, read |-> read],
                            devices[i], devices[i].attributes[j],
                            ParsedValue(devices[i].attributes[j]))} :
        /\ available' = st.available
        /\ mqtt_connected' = st.bus.connected
        /\ call' = [op |-> "write_block", device |-> i, attribute |-> j,
                    topic |-> ControlTopic(i, j), st |-> st]
        /\ UNCHANGED <<now, last_write, written_at, lastOp, ret, validator, vout,
                       pollLog, loop_pc, running, sleep_left, stop_at, cmd, rc, host, iter, sub>>

NextWrite ==
    \/ \E c \in WritableControls, e \in WriteEnvs :
            WriteBlock(c[1], c[2], e.budget, e.write_exc, e.read)
    \/ MqttConnect

SpecWrite == Init /\ [][NextWrite]_vars

\* ------------------------------------------------------------------------
\* __main__.py run_bridge and bridge.py run: the bridge task from its
\* creation, and the host coroutine from its wait for the shutdown signal
\*   host.pc    "running"     await shutdown_event.wait()
\*              "waiting"     await asyncio.wait_for(bridge_task, 10.0)
\*              "cancelling"  wait_for has timed out and cancelled the task
\*              "returned"    run_bridge has returned host.exit
\*   host.task  "startup"     run() has not reached the polling loop
\*              "loop"        run_polling_loop runs, then the cleanup
\*              "finished", "raised" (host.exc), "cancelled"
\*   host.flag  what reading config.integration.ha_discovery_enabled gives
\* ------------------------------------------------------------------------
ha_discovery_prefix == <<"homeassistant">>

STORAGE_HEATING_EXCLUDED_CONTROLS ==
    {<<"season_selection">>, <<"energy_mode">>, <<"one_time", "_", "heating">>}

STORAGE_DHW_EXCLUDED_CONTROLS ==
    {<<"season_selection">>, <<"energy_mode">>, <<"hot_water", "_", "setpoint">>}

\* ha_discovery._should_publish_attribute(device_type, attribute, 0.0)
discovery_should_publish(device_type, attribute) ==
    /\ ~(device_type = "storage_dhw" /\ attribute.method_name \in HEATING_ONLY_ATTRIBUTES)
    /\ ~(device_type = "storage_heating" /\ attribute.method_name \in DHW_ONLY_ATTRIBUTES)
    /\ ~(device_type = "storage_dhw"
         /\ attribute.method_name = "set_hot_water_setpoint_constant")
    /\ ~(device_type = "storage_heating"
         /\ ControlName(attribute) \in STORAGE_HEATING_EXCLUDED_CONTROLS)
    /\ ~(device_type = "storage_dhw"
         /\ ControlName(attribute) \in STORAGE_DHW_EXCLUDED_CONTROLS)

generate_discovery_topic(device, attribute) ==
    ha_discovery_prefix \o <<"/", attribute.ha_component, "/">> \o device.device_id
        \o <<"/">> \o ControlName(attribute) \o <<"/", "config">>

\* the discovery message of every attribute of the device that is kept
AttributeDiscovery(device) ==
    [k \in 1..Len(SelectSeq(device.attributes,
                            LAMBDA a : discovery_should_publish(device.device_type, a))) |->
        Msg(generate_discovery_topic(
                device,
                SelectSeq(device.attributes,
                          LAMBDA a : discovery_should_publish(device.device_type, a))[k]),
            Text("config"), TRUE)]

\* the climate entity of storage_heating, the water_heater entity of storage_dhw
ComplexDiscovery(device) ==
    IF device.device_type = "storage_heating"
    THEN <<Msg(ha_discovery_prefix \o <<"/", "climate", "/">> \o device.device_id
                   \o <<"/", "climate", "/", "config">>, Text("config"), TRUE)>>
    ELSE IF device.device_type = "storage_dhw"
    THEN <<Msg(ha_discovery_prefix \o <<"/", "water_heater", "/">> \o device.device_id
                   \o <<"/", "water_heater", "/", "config">>, Text("config"), TRUE)>>
    ELSE <<>>

RECURSIVE DiscoveryMsgsFrom(_)
DiscoveryMsgsFrom(i) ==
    IF i > Len(devices) THEN <<>>
    ELSE AttributeDiscovery(devices[i]) \o DiscoveryMsgsFrom(i + 1)

RECURSIVE ComplexMsgsFrom(_)
ComplexMsgsFrom(i) ==
    IF i > Len(devices) THEN <<>>
    ELSE ComplexDiscovery(devices[i]) \o ComplexMsgsFrom(i + 1)

\* a run of publish_state calls, each in its own try whose except logs
RECURSIVE PublishSwallowing(_, _)
SwallowedRest(r, rest) ==
    [bus |-> rest.bus, sent |-> r.sent \o rest.sent,
     failures |-> rest.failures + (IF r.exc # None THEN 1 ELSE 0)]

PublishSwallowing(bus, msgs) ==
    IF Len(msgs) = 0
    THEN [bus |-> bus, sent |-> <<>>, failures |-> 0]
    ELSE SwallowedRest(publish_state(bus, msgs[1].topic, msgs[1].payload, msgs[1].retain),
                       PublishSwallowing(
                           publish_state(bus, msgs[1].topic, msgs[1].payload,
                                         msgs[1].retain).bus,
                           Tail(msgs)))

\* ha_discovery.publish_all_discovery
publish_all_discovery(bus) ==
    PublishSwallowing(bus, DiscoveryMsgsFrom(1) \o ComplexMsgsFrom(1))

\* what reading self.config.integration.ha_discovery_enabled gives:
\* IntegrationConfig declares no such field, so on the Config that
\* load_config builds the read raises AttributeError ("missing"); "true" and
\* "false" are a config object that carries the attribute
DiscoveryFlags == {"missing", "true", "false"}

\* ModbusMQTTBridge.publish_discovery with the flag readable
publish_discovery(bus, flag) ==
    IF flag = "true"
    THEN publish_all_discovery(bus)
    ELSE [bus |-> bus, sent |-> <<>>, failures |-> 0]

\* run() after publish_discovery (d): publish_availability(True) (a), the
\* subscribe_commands call that MQTTClient does not define, swallowed, and
\* the call of run_polling_loop
Started(h, flag, d, a) ==
    [h EXCEPT !.flag = flag,
              !.sent = d.sent \o a.sent,
              !.failures = d.failures,
              !.task = IF a.exc # None THEN "raised" ELSE "loop",
              !.exc = a.exc]

\* run() up to the call of run_polling_loop (bridge.py lines 687-724)
RunStartup(flag, budget) ==
    /\ host.task = "startup"
    /\ host.pc # "cancelling"
    /\ IF flag = "missing"
       THEN /\ host' = [host EXCEPT !.flag = flag, !.task = "raised",
                                    !.exc = "AttributeError"]
            /\ UNCHANGED mqtt_connected
       ELSE \E d \in {publish_discovery([connected |-> mqtt_connected, budget |-> budget],
                                        flag)} :
            \E a \in {publish_availability(d.bus, TRUE)} :
                /\ host' = Started(host, flag, d, a)
                /\ mqtt_connected' = a.bus.connected
    /\ UNCHANGED <<now, last_write, available, written_at, lastOp, ret, validator, vout,
                   pollLog, loop_pc, running, sleep_left, stop_at, cmd, call, rc, iter, sub>>

\* the steps of the polling loop that run without an await
HostSyncStep ==
    /\ host.task = "loop"
    /\ \/ LoopStart
       \/ LoopTest
       \/ \E modbus_is_connected \in BOOLEAN : CheckModbus(modbus_is_connected)

\* the awaits of the polling loop completing; a cancelled task gets
\* CancelledError at its await instead
HostAwaitStep ==
    /\ host.task = "loop"
    /\ host.pc # "cancelling"
    /\ \/ Wait
       \/ WakeUp
       \/ \E ok \in BOOLEAN : MqttReconnect(ok, -1)
       \/ \E ok \in BOOLEAN : ModbusReconnect(ok)
       \/ \E budget \in Budgets, read \in TaskReads : LoopPoll(budget, read)

\* run() returning after the loop without its availability publish
RunCleanupSilent(budget) ==
    /\ host.task = "loop"
    /\ loop_pc \in {"returned", "broke"}
    /\ host' = [host EXCEPT !.task = "finished"]
    /\ UNCHANGED <<core, pollLog, loop_pc, running, sleep_left, stop_at, cmd, call, rc,
                   iter, sub>>

\* run() after run_polling_loop has returned: publish_availability(False)
\* (bridge.py lines 726-730); offline is what the broker took of it
RunCleanup(budget) ==
    /\ host.task = "loop"
    /\ loop_pc \in {"returned", "broke"}
    /\ \E r \in {publish_availability([connected |-> mqtt_connected, budget |-> budget],
                                      FALSE)} :
        /\ host' = [host EXCEPT !.task = IF r.exc # None THEN "raised" ELSE "finished",
                                !.exc = r.exc, !.offline = r.sent]
        /\ mqtt_connected' = r.bus.connected
    /\ UNCHANGED <<now, last_write, available, written_at, lastOp, ret, validator, vout,
                   pollLog, loop_pc, running, sleep_left, stop_at, cmd, call, rc, iter, sub>>

\* the shutdown signal: shutdown_event.wait() returns, bridge.stop(), and
\* run_bridge enters wait_for (__main__.py lines 126-134)
Signal ==
    /\ host.pc = "running"
    /\ running' = FALSE
    /\ host' = [host EXCEPT !.pc = "waiting"]
    /\ UNCHANGED <<core, pollLog, loop_pc, sleep_left, stop_at, cmd, call, rc, iter, sub>>

TaskOver(h) == h.task \in {"finished", "raised", "cancelled"}

\* wait_for without a timeout
WaitForNever(h) == FALSE

\* asyncio.wait_for(bridge_task, timeout=10.0) can time out while the task
\* has not ended
WaitForTimeout(h) == h.pc = "waiting" /\ ~TaskOver(h)

\* the task ended while run_bridge waits for it: wait_for returns, or
\* raises what the task raised and run_bridge's except returns 1
HostTaskDone ==
    /\ host.pc = "waiting"
    /\ TaskOver(host)
    /\ host' = [host EXCEPT !.pc = "returned",
                            !.exit = IF host.task = "finished" THEN 0 ELSE 1]
    /\ UNCHANGED <<core, pollLog, loop_pc, running, sleep_left, stop_at, cmd, call, rc, iter, sub>>

\* the timeout of wait_for: the task is cancelled
HostTimeout ==
    /\ WaitForTimeout(host)
    /\ host' = [host EXCEPT !.pc = "cancelling", !.forced = TRUE,
                            !.cancelled_at = IF host.task = "startup" THEN "startup"
                                             ELSE loop_pc]
    /\ UNCHANGED <<core, pollLog, loop_pc, running, sleep_left, stop_at, cmd, call, rc, iter, sub>>

\* where the cancelled task stands at an await
AtAwait ==
    \/ host.task = "startup"
    \/ host.task = "loop" /\ loop_pc \in {"mqtt_reconnect", "modbus_reconnect", "polling",
                                          "retry_wait", "interval_wait"}

\* CancelledError raised at the await of the cancelled task: the interval
\* sleep catches it and breaks (bridge.py lines 675-678), elsewhere it leaves
\* run()
CancelDelivered ==
    /\ host.pc = "cancelling"
    /\ AtAwait
    /\ ~(host.task = "loop" /\ loop_pc = "broke")
    /\ IF host.task = "loop" /\ loop_pc = "interval_wait"
       THEN /\ loop_pc' = "broke"
            /\ UNCHANGED host
       ELSE /\ host' = [host EXCEPT !.task = "cancelled"]
            /\ loop_pc' = IF host.task = "loop" THEN "cancelled" ELSE loop_pc
    /\ UNCHANGED <<core, pollLog, running, sleep_left, stop_at, cmd, call, rc, iter, sub>>

\* the cancelled task has ended: wait_for raises TimeoutError (or what the
\* task raised in its cleanup), run_bridge leaves the async with and returns
HostCancelDone ==
    /\ host.pc = "cancelling"
    /\ TaskOver(host)
    /\ \E code \in {0, 1} :
        /\ (code = 1) => host.task = "raised"
        /\ host' = [host EXCEPT !.pc = "returned", !.exit = code]
    /\ UNCHANGED <<core, pollLog, loop_pc, running, sleep_left, stop_at, cmd, call, rc, iter, sub>>

HostStep ==
    \/ HostTaskDone
    \/ HostTimeout
    \/ HostCancelDone

NextHost ==
    \/ \E flag \in DiscoveryFlags, budget \in PollBudgets : RunStartup(flag, budget)
    \/ HostSyncStep
    \/ HostAwaitStep
    \/ \E budget \in Budgets : RunCleanup(budget)
    \/ Signal
    \/ HostStep
    \/ CancelDelivered

SpecHost == Init /\ [][NextHost]_vars

\* the event loop runs run_bridge when its wait is over and the timer of
\* wait_for fires; code without an await runs on; a cancelled task is
\* resumed with CancelledError; the publishes of the cleanup return or
\* raise. The awaits of the polling loop are not assumed to complete.
SpecHostFair ==
    /\ SpecHost
    /\ WF_vars(HostStep)
    /\ WF_vars(HostSyncStep)
    /\ WF_vars(CancelDelivered)
    /\ WF_vars(\E budget \in Budgets : RunCleanup(budget))

\* ------------------------------------------------------------------------
\* Properties of the state publishes of a poll cycle
\* ------------------------------------------------------------------------
\* the value the bulk-read result holds for attribute j of device i, if any
HasData(all_data, i, j) ==
    /\ devices[i].device_type \in DOMAIN all_data
    /\ devices[i].attributes[j].method_name \in DOMAIN all_data[devices[i].device_type]

DataOf(all_data, i, j) ==
    all_data[devices[i].device_type][devices[i].attributes[j].method_name]

PublishedFor(sent, i, j) ==
    \E k \in 1..Len(sent) : sent[k].topic = get_mqtt_topic(devices[i], devices[i].attributes[j])

\* C21: in a poll cycle whose bulk read succeeds, an attribute whose key the
\* device's bucket does not hold is not published; the only exception that
\* can leave the cycle is a publish failure; and when none occurs every
\* attribute that has data and passes the filter is published, also after
\* attributes and devices without data.
C21_MissingKeySkipped ==
    \A n \in 1..Len(pollLog) :
        pollLog[n].read.ok =>
            /\ pollLog[n].exc \in {None, ConnectionError}
            /\ \A i \in DeviceIx : \A j \in 1..Len(devices[i].attributes) :
                IF ~HasData(pollLog[n].read.data, i, j)
                THEN ~PublishedFor(pollLog[n].sent, i, j)
                ELSE (pollLog[n].exc = None
                      /\ should_publish_attribute(devices[i].device_type,
                                                  devices[i].attributes[j],
                                                  DataOf(pollLog[n].read.data, i, j)))
                        => PublishedFor(pollLog[n].sent, i, j)

\* a cycle on the result without the heat_pump bucket: the storage_heating
\* device has no data for its first attributes and its later ones and the
\* next device's are published
C21_Witness ==
    /\ pollLog # <<>>
    /\ LastPoll.read = [ok |-> TRUE, data |-> Snapshot3]
    /\ LastPoll.exc = None
    /\ ~PublishedFor(LastPoll.sent, 2, 1)
    /\ PublishedFor(LastPoll.sent, 2, 3)
    /\ PublishedFor(LastPoll.sent, 3, 2)

\* ------------------------------------------------------------------------
\* Properties of reconnect_with_backoff
\* ------------------------------------------------------------------------
\* C22: when connect() has failed twice and then succeeded, the call has
\* slept exactly twice: the delay and then twice the delay, each capped at
\* the ceiling.
C22_TwoFailuresTwoSleeps ==
    (rc.pc = "returned" /\ rc.failed = 2) =>
        rc.sleeps = <<Min(rc.delay, rc.ceiling), Min(2 * rc.delay, rc.ceiling)>>

\* ------------------------------------------------------------------------
\* Properties of handle_command on every kind of inbound message
\* ------------------------------------------------------------------------
\* the handler run the last operation made, and the attribute it resolved
IsCommandRun == lastOp.op = "handle_command"

RunAttribute == devices[lastOp.st.device].attributes[lastOp.st.attribute]

\* the payload does not parse under the component kind of the attribute
Unparsable(attribute, payload) ==
    CASE attribute.ha_component = "number" -> ~ParseFloat(payload).ok
      [] attribute.method_name = "set_season_selection_manual" ->
            StripLower(payload) \notin DOMAIN season_reverse_map
      [] attribute.method_name = "set_heating_circuit_energy_mode" ->
            StripLower(payload) \notin DOMAIN energy_reverse_map
      [] attribute.ha_component = "button" -> Upper(payload) \notin {"1", "PRESS"}
      [] OTHER -> TRUE

\* the messages of the run that went out on the command's error topic
ErrorsSent ==
    SelectSeq(lastOp.st.sent, LAMBDA m : m.topic = ErrorTopic(lastOp.topic))

\* C25: a command for a resolved control whose payload does not parse under
\* the control's component kind (number: not a float; select: not in the
\* reverse table after strip and lower; button: neither trigger token) makes
\* no device write and one error publish to {topic}/error, which goes out
\* unless the broker connection fails; past the rate limiter the error is
\* the parse error.
C25_UnparsableRejected ==
    (IsCommandRun /\ lastOp.st.attribute # 0 /\ Unparsable(RunAttribute, lastOp.payload)) =>
        /\ lastOp.st.writes = <<>>
        /\ Len(lastOp.st.errors) = 1
        /\ lastOp.st.errors[1].topic = ErrorTopic(lastOp.topic)
        /\ lastOp.st.sent = <<>> => ~lastOp.st.bus.connected
        /\ lastOp.st.sent # <<>> =>
              lastOp.st.sent = <<Msg(ErrorTopic(lastOp.topic), lastOp.st.errors[1].error,
                                     FALSE)>>
        /\ lastOp.st.rate_ok => lastOp.st.stage = "parse"

\* a select payload outside the reverse table got the parse error published
C25_Witness ==
    /\ IsCommandRun
    /\ lastOp.topic = SeasonTopic
    /\ lastOp.payload = "bogus"
    /\ lastOp.st.stage = "parse"
    /\ lastOp.st.writes = <<>>
    /\ Len(ErrorsSent) = 1

\* C26: every command that fails at device or attribute resolution, rate
\* limiting, parsing, safety validation or the device write results in
\* exactly one message published to {topic}/error.
C26_ExactlyOneErrorMessage ==
    (IsCommandRun /\ lastOp.st.stage \notin {"dropped", "done"}) =>
        /\ Len(lastOp.st.errors) = 1
        /\ lastOp.st.errors[1].topic = ErrorTopic(lastOp.topic)

\* the part of C26 the handler keeps: every such command has at least one
\* error publish made for it, each to {topic}/error
C26_AtLeastOneErrorPublish ==
    (IsCommandRun /\ lastOp.st.stage \notin {"dropped", "done"}) =>
        /\ Len(lastOp.st.errors) >= 1
        /\ \A k \in 1..Len(lastOp.st.errors) :
                lastOp.st.errors[k].topic = ErrorTopic(lastOp.topic)

\* a topic of the form .../controls/{name}/set: its last part is "set", the
\* part before the control name is "controls", and something precedes it
IsCommandForm(topic) ==
    /\ Len(Split(topic)) >= 4
    /\ Split(topic)[Len(Split(topic))] = <<"set">>
    /\ Split(topic)[Len(Split(topic)) - 2] = <<"controls">>

\* C29: a message whose topic is not of the form .../controls/{name}/set is
\* dropped: nothing is published, no error publish is made, the rate limiter
\* is as before and no device write is made.
C29_MalformedTopicDropped ==
    (IsCommandRun /\ ~IsCommandForm(lastOp.topic)) =>
        /\ lastOp.st.stage = "dropped"
        /\ lastOp.st.sent = <<>>
        /\ lastOp.st.errors = <<>>
        /\ lastOp.st.writes = <<>>
        /\ lastOp.st.last_write = lastOp.prev_last_write
        /\ ~lastOp.st.raised

\* a topic with a part between the control name and "set" was dropped
C29_Witness ==
    /\ IsCommandRun
    /\ lastOp.topic = DhwBase \o <<"/", "controls", "/", "one_time", "_", "heating",
                                   "/", "now", "/", "set">>
    /\ lastOp.st.stage = "dropped"
    /\ lastOp.st.sent = <<>>

\* C30: a message on a topic the bridge publishes to under base_topic (a
\* state topic, an availability topic, the error topic of a command) is
\* dropped by handle_command without a publish, and whatever a handler run
\* publishes goes to such a topic.
C30_OwnOutputDropped ==
    IsCommandRun =>
        /\ lastOp.topic \in BridgeTopics =>
              /\ lastOp.st.stage = "dropped"
              /\ lastOp.st.sent = <<>>
              /\ lastOp.st.errors = <<>>
              /\ lastOp.st.writes = <<>>
        /\ \A k \in 1..Len(lastOp.st.sent) : lastOp.st.sent[k].topic \in BridgeTopics

\* after a command for the setpoint was handled, a message on the error
\* topic of that command came in and was dropped
C30_Witness ==
    /\ IsCommandRun
    /\ lastOp.topic = ErrorTopic(SetpointTopic)
    /\ lastOp.st.stage = "dropped"
    /\ lastOp.st.sent = <<>>
    /\ RateKey(devices[3], <<"hot_water", "_", "setpoint">>) \in DOMAIN last_write

\* ------------------------------------------------------------------------
\* Properties of the write block of handle_command
\* ------------------------------------------------------------------------
IsWriteBlock == call.op = "write_block"

BlockAttribute == devices[call.device].attributes[call.attribute]

\* write_method(parsed_value) returned
WriteSucceeded == \E k \in 1..Len(call.st.writes) : call.st.writes[k].ok

C27_ErrorImpliesNotWritten ==
    (IsCommandRun /\ lastOp.st.errors # <<>>) =>
        \A k \in 1..Len(lastOp.st.writes) : ~lastOp.st.writes[k].ok

IsDiscoveryMsg(m) == StartsWith(m.topic, ha_discovery_prefix)

\* run() is past its startup
StartupOver == host.flag # None

\* C23: with discovery disabled the startup publishes nothing under the
\* discovery prefix; whatever the flag, the startup publishes the same
\* availability messages and goes on to the polling loop, and a failure
\* while publishing discovery does not keep it from getting there.
C23_DiscoveryDoesNotGateStartup ==
    StartupOver =>
        /\ host.flag # "true" =>
              \A k \in 1..Len(host.sent) : ~IsDiscoveryMsg(host.sent[k])
        /\ host.failures > 0 => host.task # "raised"
        /\ host.exc # "AttributeError"
        /\ host.exc = None =>
              SelectSeq(host.sent, LAMBDA m : ~IsDiscoveryMsg(m))
                  = [i \in DeviceIx |-> AvailabilityMsg(devices[i], TRUE)]

\* C24: once the shutdown signal has been received run_bridge eventually
\* returns, whatever the bridge task is doing.
C24_ShutdownReturns == (host.pc = "waiting") ~> (host.pc = "returned")

\* run_bridge returned after cancelling a task that was in the MQTT
\* reconnect, which had not succeeded
C24_Witness ==
    /\ host.pc = "returned"
    /\ host.forced
    /\ host.cancelled_at = "mqtt_reconnect"
    /\ host.task = "cancelled"
    /\ ~mqtt_connected

\* ------------------------------------------------------------------------
\* Properties of the iterations of the polling loop
\* ------------------------------------------------------------------------
AllOnline == [i \in DeviceIx |-> AvailabilityMsg(devices[i], TRUE)]

\* C31: when the loop is about to start poll_and_publish, the MQTT client
\* reports connected and the Modbus client has reported connected or its
\* reconnect has returned in this iteration; and when the MQTT client was
\* reconnected in this iteration, "online" has been published for every
\* device since.
C31_PollOnlyWhenConnected ==
    loop_pc = "polling" =>
        /\ mqtt_connected
        /\ iter.modbus \in {"connected", "reconnected"}
        /\ iter.mqtt_reconnected => iter.online = AllOnline

\* the loop is about to poll after it has reconnected both clients
C31_Witness ==
    /\ loop_pc = "polling"
    /\ iter.mqtt_reconnected
    /\ iter.online = AllOnline
    /\ iter.modbus = "reconnected"

\* ------------------------------------------------------------------------
\* Properties of the sleeps of reconnect_with_backoff
\* ------------------------------------------------------------------------
RECURSIVE Pow2(_)
Pow2(n) == IF n = 0 THEN 1 ELSE 2 * Pow2(n - 1)

\* C32: in every call of reconnect_with_backoff the k-th sleep lasts
\* min(delay * 2^(k-1), ceiling) seconds, for every configured delay and
\* ceiling; in particular no sleep is longer than the ceiling.
C32_KthSleepIsCappedPower ==
    rc.pc # "idle" =>
        \A k \in 1..Len(rc.sleeps) :
            rc.sleeps[k] = Min(rc.delay * Pow2(k - 1), rc.ceiling)

\* the same for the calls configured with a delay not above the ceiling
C32_HoldsWhenDelayBelowCeiling ==
    (rc.pc # "idle" /\ rc.delay <= rc.ceiling) =>
        \A k \in 1..Len(rc.sleeps) :
            rc.sleeps[k] = Min(rc.delay * Pow2(k - 1), rc.ceiling)

\* C33: the sleep that ends an iteration lasts min(5, interval) seconds when
\* the iteration was left with a ConnectionError, and the full poll interval
\* when it was left with any other exception or with none; the short sleep
\* is then shorter than the interval.
C33_ShortWaitOnlyAfterConnectionError ==
    iter.phase = "sleeping" =>
        /\ iter.exc = ConnectionError =>
                /\ iter.seconds = Min(retry_delay_seconds, poll_interval_seconds)
                /\ iter.seconds < poll_interval_seconds
        /\ iter.exc # ConnectionError => iter.seconds = poll_interval_seconds
        /\ loop_pc = "retry_wait" => iter.exc = ConnectionError
        /\ loop_pc = "interval_wait" => iter.exc # ConnectionError

\* the loop sleeps the retry delay after a poll that raised ConnectionError
C33_Witness ==
    /\ loop_pc = "retry_wait"
    /\ iter.phase = "sleeping"
    /\ iter.exc = ConnectionError
    /\ iter.seconds = retry_delay_seconds
    /\ pollLog # <<>>

\* the loop sleeps the full interval after a poll that raised another exception
C33_WitnessOtherException ==
    /\ loop_pc = "interval_wait"
    /\ iter.exc \notin {None, ConnectionError}
    /\ iter.seconds = poll_interval_seconds

\* the loop sleeps the full interval after a poll that raised nothing
C33_WitnessSuccess ==
    /\ loop_pc = "interval_wait"
    /\ iter.exc = None
    /\ iter.seconds = poll_interval_seconds

\* a poll cycle of the loop in which a publish failed: the read returned and
\* an exception left the cycle
PublishFailedInLastPoll == pollLog # <<>> /\ LastPoll.read.ok /\ LastPoll.exc # None

\* C34: a poll cycle in which a publish failed is left by a ConnectionError
\* and leaves the MQTT client disconnected for the sleep that follows; the
\* "offline" publishes attempted after the failure, on the disconnected
\* client, deliver nothing; while the client is disconnected the loop is
\* never at the Modbus test or at the poll, and the next poll starts only
\* after reconnect_with_backoff has returned in its iteration.
C34_FailedPublishForcesReconnect ==
    /\ ~mqtt_connected => loop_pc \notin {"check_modbus", "modbus_reconnect", "polling"}
    /\ PublishFailedInLastPoll =>
            /\ LastPoll.exc = ConnectionError
            /\ \A k \in 1..Len(LastPoll.sent) : LastPoll.sent[k].payload # Text("offline")
            /\ iter.phase = "sleeping" => (~mqtt_connected /\ loop_pc # "interval_wait")
            /\ loop_pc = "polling" => iter.mqtt_reconnected

\* the loop is about to poll again after a cycle in which a publish failed
C34_Witness ==
    /\ PublishFailedInLastPoll
    /\ LastPoll.sent # <<>>
    /\ loop_pc = "polling"
    /\ iter.mqtt_reconnected

\* C35: between the online publish that follows an MQTT reconnect, accepted
\* by the broker for every device, and the poll of that iteration, no poll
\* cycle is in flight and the last availability status published for each
\* device is "online", so every device's available flag is true.
C35_OnlineAfterReconnectAgreesWithFlag ==
    (/\ loop_pc \in {"check_modbus", "modbus_reconnect", "polling"}
     /\ iter.mqtt_reconnected
     /\ iter.online = AllOnline)
    => \A i \in DeviceIx : available[i]

\* outside the iterations that reconnect the MQTT client, the flags agree
\* with what the last poll cycle published: every flag is true unless the
\* last cycle raised
C35_FlagsFollowLastPoll ==
    (loop_pc \in {"retry_wait", "interval_wait"} /\ pollLog # <<>> /\ LastPoll.exc = None)
    => \A i \in DeviceIx : available[i]

C36_WitnessStopped ==
    /\ host.task = "finished"
    /\ loop_pc = "returned"
    /\ Len(host.offline) = Len(devices)

\* the loop was left with the MQTT client disconnected: run() raises and
\* nothing is published
C36_WitnessDisconnected ==
    /\ host.task = "raised"
    /\ loop_pc \in {"returned", "broke"}
    /\ host.exc = ConnectionError
    /\ host.offline = <<>>

\* ------------------------------------------------------------------------
\* Properties of the attribute filter on every kind of value
\* ------------------------------------------------------------------------
\* a reading of a temperature sensor below -50 or above 100 degrees
OutOfRangeTemperature(attribute, value) ==
    /\ attribute.ha_component = "sensor"
    /\ attribute.device_class = "temperature"
    /\ (AsFloat(value) < (0 - 50) * ValueScale \/ AsFloat(value) > 100 * ValueScale)

\* the attribute belongs to the storage device type other than device_type
ExclusiveToOther(device_type, attribute) ==
    \/ device_type = "storage_dhw" /\ attribute.method_name \in HEATING_ONLY_ATTRIBUTES
    \/ device_type = "storage_heating" /\ attribute.method_name \in DHW_ONLY_ATTRIBUTES

\* C37: the filter rejects None; it accepts every other value, the zeros
\* 0, 0.0 and False included, unless the value is an out-of-range
\* temperature reading or the attribute is exclusive to the other storage
\* device type; on a heat_pump device it accepts every value that is
\* neither None nor an out-of-range temperature reading, whatever the
\* attribute.
C37_FilterAcceptsAllButNoneRangeExclusive ==
    call.op = "should_publish_attribute" =>
        /\ call.value.t = "none" => ~call.result
        /\ (/\ call.value.t # "none"
            /\ ~OutOfRangeTemperature(call.attribute, call.value)
            /\ ~ExclusiveToOther(call.device_type, call.attribute)) => call.result
        /\ (/\ call.device_type = "heat_pump"
            /\ call.value.t # "none"
            /\ ~OutOfRangeTemperature(call.attribute, call.value)) => call.result

\* False accepted for a binary sensor of the storage_heating device
C37_Witness ==
    /\ call.op = "should_publish_attribute"
    /\ call.device_type = "storage_heating"
    /\ call.attribute.method_name = "cooling_mode_active"
    /\ call.value.t = "bool"
    /\ ~call.value.v
    /\ call.result

\* the integer 0 of a DHW-only attribute accepted on a heat_pump device
C37_WitnessHeatPump ==
    /\ call.op = "should_publish_attribute"
    /\ call.device_type = "heat_pump"
    /\ call.attribute.method_name = "hot_water_actual"
    /\ call.value.t = "int"
    /\ call.value.v = 0
    /\ call.result

\* ------------------------------------------------------------------------
\* Properties of a poll cycle that reads values outside an enumeration
\* ------------------------------------------------------------------------
HeatPumpTopic(suffix) == devices[1].mqtt_base_topic \o <<"/">> \o suffix

DhwTopic(suffix) == devices[3].mqtt_base_topic \o <<"/">> \o suffix

\* what a cycle on UnknownEnumData(raw) publishes when nothing stops it
UnknownEnumExpected(raw) ==
    << Msg(HeatPumpTopic(<<"sensors", "/", "outdoor_temp">>), StrOf(F(5 * ValueScale)), FALSE),
       Msg(HeatPumpTopic(<<"sensors", "/", "status">>), StrOf(raw), FALSE),
       Msg(HeatPumpTopic(<<"binary", "_", "sensors", "/", "alarm">>), Text("ON"), FALSE),
       Msg(HeatingBase \o <<"/", "sensors", "/", "t4_temp">>, StrOf(F(5 * ValueScale)), FALSE),
       Msg(HeatingBase \o <<"/", "sensors", "/", "season_selection">>, StrOf(raw), FALSE),
       Msg(DhwTopic(<<"sensors", "/", "hot_water", "_", "actual">>),
           StrOf(F(48 * ValueScale)), FALSE),
       Msg(DhwTopic(<<"sensors", "/", "season_selection">>), Text("heat"), FALSE) >>

\* C38: a poll cycle whose bulk read holds a raw value that is no member of
\* the attribute's enumeration publishes str(value) for that attribute and
\* goes on with the attributes and devices that follow; no exception leaves
\* the cycle unless the broker fails a publish, and then what was published
\* is the beginning of the same sequence.
C38_UnknownEnumPublishedRaw ==
    call.op = "poll_and_publish" =>
        /\ call.budget \notin 0..(Len(UnknownEnumExpected(call.raw)) - 1) =>
                /\ call.result.exc = None
                /\ call.result.sent = UnknownEnumExpected(call.raw)
        /\ call.budget \in 0..(Len(UnknownEnumExpected(call.raw)) - 1) =>
                /\ call.result.exc = ConnectionError
                /\ call.result.sent = SubSeq(UnknownEnumExpected(call.raw), 1, call.budget)

\* a cycle that read 2.5 for both enumerations and published everything
C38_Witness ==
    /\ call.op = "poll_and_publish"
    /\ call.raw.t = "float"
    /\ call.budget = 0 - 1
    /\ call.result.exc = None
    /\ Len(call.result.sent) = 7
    /\ call.result.sent[2].payload = StrOf(call.raw)

\* ------------------------------------------------------------------------
\* mqtt_client.py: subscribe with handle_command as its callback
\*   sub.pc is the position of subscribe(); inbox is client.messages, each
\*   message numbered by arrival and tagged with the kind of control it
\*   addresses; active are the callbacks in flight, each with the awaits it
\*   still has to make; log is the history of handler starts, awaits and
\*   returns; waited are the messages that arrived while a callback was in
\*   flight.
\* ------------------------------------------------------------------------
MaxMessages == 3

MessageKinds == {"number", "button", "dropped"}

\* the awaits of handle_command after the rate limiter, by control kind
\* (bridge.py lines 587-600); a message that is dropped makes none
HandlerAwaits(kind) ==
    CASE kind = "number" -> <<"write", "settle", "poll">>
      [] kind = "button" -> <<"write">>
      [] OTHER -> <<>>

\* a listener that hands every message to a callback of its own at once
CanStartHandlerAnytime(s) == s.pc = "listening" /\ s.inbox # <<>>

\* async for message in self.client.messages: await callback(...) (lines
\* 337-343): the next message is taken when the callback has returned
CanStartHandler(s) == s.pc = "listening" /\ s.inbox # <<>> /\ s.active = <<>>

\* subscribe() up to its listener loop (lines 328-334)
SubscribeCall ==
    /\ sub.pc = "idle"
    /\ sub' = [sub EXCEPT !.pc = IF mqtt_connected THEN "listening" ELSE "raised"]
    /\ UNCHANGED <<core, pollLog, loop_pc, running, sleep_left, stop_at, cmd, call, rc,
                   host, iter>>

\* the broker delivers a message to client.messages
MessageArrives(kind) ==
    /\ sub.pc = "listening"
    /\ sub.arrived < MaxMessages
    /\ sub' = [sub EXCEPT !.arrived = @ + 1,
                          !.inbox = Append(@, [id |-> sub.arrived + 1, kind |-> kind]),
                          !.waited = IF sub.active # <<>> THEN @ \cup {sub.arrived + 1}
                                     ELSE @]
    /\ UNCHANGED <<core, pollLog, loop_pc, running, sleep_left, stop_at, cmd, call, rc,
                   host, iter>>

\* the listener takes the next message and calls the callback (line 343)
HandlerStart ==
    /\ CanStartHandler(sub)
    /\ sub' = [sub EXCEPT !.inbox = Tail(@),
                          !.active = Append(@, [id |-> sub.inbox[1].id,
                                                awaits |-> HandlerAwaits(sub.inbox[1].kind)]),
                          !.log = Append(@, [ev |-> "start", id |-> sub.inbox[1].id])]
    /\ UNCHANGED <<core, pollLog, loop_pc, running, sleep_left, stop_at, cmd, call, rc,
                   host, iter>>

\* one await of a callback in flight completes; a write or a poll that
\* raises ends the try block, the error is published and the handler has
\* nothing left to await (bridge.py lines 602-610)
HandlerStep(k, ok) ==
    /\ k \in DOMAIN sub.active
    /\ sub.active[k].awaits # <<>>
    /\ ok \/ sub.active[k].awaits[1] # "settle"
    /\ sub' = [sub EXCEPT !.active[k].awaits = IF ok THEN Tail(@) ELSE <<>>,
                          !.log = Append(@, [ev |-> IF ok THEN sub.active[k].awaits[1]
                                                    ELSE "error",
                                             id |-> sub.active[k].id])]
    /\ UNCHANGED <<core, pollLog, loop_pc, running, sleep_left, stop_at, cmd, call, rc,
                   host, iter>>

\* the callback returns to the listener
HandlerReturn(k) ==
    /\ k \in DOMAIN sub.active
    /\ sub.active[k].awaits = <<>>
    /\ sub' = [sub EXCEPT !.active = SubSeq(@, 1, k - 1) \o SubSeq(@, k + 1, Len(@)),
                          !.log = Append(@, [ev |-> "return", id |-> sub.active[k].id])]
    /\ UNCHANGED <<core, pollLog, loop_pc, running, sleep_left, stop_at, cmd, call, rc,
                   host, iter>>

\* the message iterator raises while the listener waits: subscribe() marks
\* the client disconnected and raises (lines 345-348)
SubscriptionError ==
    /\ sub.pc = "listening"
    /\ sub.active = <<>>
    /\ sub' = [sub EXCEPT !.pc = "raised"]
    /\ mqtt_connected' = FALSE
    /\ UNCHANGED <<now, last_write, available, written_at, lastOp, ret, validator, vout,
                   pollLog, loop_pc, running, sleep_left, stop_at, cmd, call, rc, host,
                   iter>>

NextSubscribe ==
    \/ SubscribeCall
    \/ \E kind \in MessageKinds : MessageArrives(kind)
    \/ HandlerStart
    \/ \E k \in DOMAIN sub.active, ok \in BOOLEAN : HandlerStep(k, ok)
    \/ \E k \in DOMAIN sub.active : HandlerReturn(k)
    \/ SubscriptionError

SpecSubscribe == Init /\ [][NextSubscribe]_vars

\* C39: at most one command handler is in flight; the handlers start in the
\* order their messages arrived, each after the previous one has returned,
\* and everything a handler awaits (write, settle delay, confirmatory poll)
\* lies between its start and its return.
C39_HandlersOneAtATimeInOrder ==
    /\ Len(sub.active) <= 1
    /\ \A k \in 1..Len(sub.log) :
        /\ k = 1 => sub.log[k] = [ev |-> "start", id |-> 1]
        /\ (k > 1 /\ sub.log[k].ev = "start") =>
                /\ sub.log[k - 1].ev = "return"
                /\ sub.log[k].id = sub.log[k - 1].id + 1
        /\ (k > 1 /\ sub.log[k].ev # "start") =>
                /\ sub.log[k - 1].ev # "return"
                /\ sub.log[k].id = sub.log[k - 1].id
    /\ \A j \in 1..Len(sub.inbox) :
            \A k \in 1..Len(sub.log) : sub.log[k].id < sub.inbox[j].id

\* the second message arrived while the handler of the first was in flight,
\* and its handler started after the first had slept, polled and returned
C39_Witness ==
    /\ 2 \in sub.waited
    /\ Len(sub.log) >= 6
    /\ SubSeq(sub.log, 1, 6) =
           << [ev |-> "start", id |-> 1], [ev |-> "write", id |-> 1],
              [ev |-> "settle", id |-> 1], [ev |-> "poll", id |-> 1],
              [ev |-> "return", id |-> 1], [ev |-> "start", id |-> 2] >>

====
